---- MODULE Spec2Model ----
(***************************************************************************)
(* Task-graph orchestration engine of the general-contractor demo:         *)
(* TaskManager (backend/orchestration/task_manager.py), the execution      *)
(* controller and run loop of GeneralContractorAgent                       *)
(* (backend/agents/general_contractor.py) and the operator endpoints       *)
(* skip / retry / reset (backend/api/routes.py).                           *)
(*                                                                         *)
(* One step of the model is one stretch of code that runs between two      *)
(* suspension points of the asyncio event loop: a request runs from its    *)
(* entry to the first await of a worker, from a worker's answer to the     *)
(* next await, and so on.                                                  *)
(***************************************************************************)
EXTENDS Integers, Sequences, FiniteSets, TLC

VARIABLES
    tasks,            \* TaskManager.tasks: task_id -> Task
    order,            \* insertion order of the dict TaskManager.tasks
    completed_tasks,  \* TaskManager.completed_tasks
    failed_tasks,     \* TaskManager.failed_tasks
    project_phase,    \* GeneralContractorAgent.project_phase
    current_project,  \* GeneralContractorAgent.current_project
    last_error,       \* GeneralContractorAgent.last_error
    req,              \* the requests in flight: request slot -> coroutine frame
    returns,          \* values returned by the execute_task calls of the last step
    response,         \* value returned by the request that finished last
    worker_answer,    \* what the worker awaited in the last step did, for which task
    dispatched,       \* task ids handed to execute_task by execute_next_phase
    starts,           \* number of start_project calls so far
    ops,              \* number of skip / retry calls so far
    tracker,          \* a ToolCallTracker object (NoTracker while none is constructed)
    signal,           \* <<value returned by the last track_call>>
    tool_calls,       \* task id -> tool_use events streamed by its worker
    planner_result,   \* what the planning agent answers to start_project
    events,           \* ActivityLogger._events, as far as a specification observes it
    subscribers       \* ActivityLogger._subscribers: the queues of the listeners

vars == <<tasks, order, completed_tasks, failed_tasks, project_phase,
          current_project, last_error, req, returns, response,
          worker_answer, dispatched, starts, ops, tracker, signal,
          tool_calls, planner_result, events, subscribers>>

\* the variables the orchestration requests never touch
guard_vars == <<tracker, signal, tool_calls>>

\* the planning agent's answer is read by start_project on the dynamic path only
planning_vars == <<planner_result>>

\* The activity log is written and never read by the orchestration; it is
\* part of the state where the telemetry is specified (SpecTelemetry).
telemetry_vars == <<events, subscribers>>

-----------------------------------------------------------------------------
(* Bounds of the exploration *)

MaxStarts == 1
MaxOps == 1
MaxGraph == 3

-----------------------------------------------------------------------------
(* Constants of the program *)

None == "none"

PENDING == "pending"
READY == "ready"
IN_PROGRESS == "in_progress"
COMPLETED == "completed"
BLOCKED == "blocked"
FAILED == "failed"

TaskStatus == {PENDING, READY, IN_PROGRESS, COMPLETED, BLOCKED, FAILED}

PHASE_ORDER == <<"planning", "permitting", "foundation", "framing",
                 "rough_in", "inspection", "finishing", "final_inspection">>

agents == {"Architect", "Carpenter", "Electrician", "Plumber", "Mason",
           "Painter", "HVAC", "Roofer"}

max_iterations == 50

-----------------------------------------------------------------------------
(* Sequence helpers *)

Range(s) == {s[i] : i \in DOMAIN s}

RECURSIVE SelectSeqBy(_, _)
SelectSeqBy(s, keep) ==
    IF s = <<>> THEN <<>>
    ELSE IF Head(s) \in keep
         THEN <<Head(s)>> \o SelectSeqBy(Tail(s), keep)
         ELSE SelectSeqBy(Tail(s), keep)

-----------------------------------------------------------------------------
(* The Task dataclass and the TaskManager object as a value *)

NoResult == [kind |-> None, info |-> None]

Task(agent, dependencies, phase) ==
    [agent |-> agent, dependencies |-> dependencies, phase |-> phase,
     status |-> PENDING, result |-> NoResult]

TM(t, o, c, f) == [tasks |-> t, order |-> o, completed |-> c, failed |-> f]

TheTM == TM(tasks, order, completed_tasks, failed_tasks)

EmptyTM == TM(<<>>, <<>>, {}, {})

\* an add_task that stores the task without its dependencies
add_task_without_dependencies(tm, id, task) ==
    [tm EXCEPT !.tasks = [k \in DOMAIN tm.tasks \cup {id} |->
                             IF k = id THEN [task EXCEPT !.dependencies = <<>>]
                             ELSE tm.tasks[k]],
               !.order = IF id \in DOMAIN tm.tasks THEN tm.order
                         ELSE Append(tm.order, id)]

add_task(tm, id, task) ==
    [tm EXCEPT !.tasks = [k \in DOMAIN tm.tasks \cup {id} |->
                             IF k = id THEN task ELSE tm.tasks[k]],
               !.order = IF id \in DOMAIN tm.tasks THEN tm.order
                         ELSE Append(tm.order, id)]

\* a dependency check that is satisfied by one completed dependency
are_dependencies_met_any(deps, completed) ==
    deps = <<>> \/ \E i \in DOMAIN deps : deps[i] \in completed

RECURSIVE are_dependencies_met_list(_, _)
are_dependencies_met_list(deps, completed) ==
    IF deps = <<>> THEN TRUE
    ELSE IF Head(deps) \notin completed THEN FALSE
    ELSE are_dependencies_met_list(Tail(deps), completed)

\* a dependency check that lets every task through
are_dependencies_met_always(tm, id) == TRUE

are_dependencies_met(tm, id) ==
    are_dependencies_met_list(tm.tasks[id].dependencies, tm.completed)

\* a scheduler that also picks up failed tasks again
ready_ids_retrying(tm) ==
    SelectSeqBy(tm.order,
                {id \in DOMAIN tm.tasks :
                    /\ tm.tasks[id].status \in {PENDING, FAILED}
                    /\ are_dependencies_met(tm, id)})

\* get_ready_tasks: the ids it promotes, in dict order
ready_ids(tm) ==
    SelectSeqBy(tm.order,
                {id \in DOMAIN tm.tasks :
                    /\ tm.tasks[id].status = PENDING
                    /\ are_dependencies_met(tm, id)})

\* a get_ready_tasks that returns the tasks without setting their status
get_ready_tasks_unmarked(tm) ==
    [tm |-> tm, ready |-> ready_ids(tm)]

get_ready_tasks(tm) ==
    LET ready == ready_ids(tm)
    IN [tm |-> [tm EXCEPT !.tasks =
                    [id \in DOMAIN tm.tasks |->
                        IF id \in Range(ready)
                        THEN [tm.tasks[id] EXCEPT !.status = READY]
                        ELSE tm.tasks[id]]],
        ready |-> ready]

mark_in_progress(tm, id) ==
    IF id \in DOMAIN tm.tasks
    THEN [tm EXCEPT !.tasks[id].status = IN_PROGRESS]
    ELSE tm

\* a mark_completed that sets the status and forgets the completed set
mark_completed_status_only(tm, id, result) ==
    IF id \in DOMAIN tm.tasks
    THEN [tm EXCEPT !.tasks[id].status = COMPLETED,
                    !.tasks[id].result = result]
    ELSE tm

mark_completed(tm, id, result) ==
    IF id \in DOMAIN tm.tasks
    THEN [tm EXCEPT !.tasks[id].status = COMPLETED,
                    !.tasks[id].result = result,
                    !.completed = @ \cup {id}]
    ELSE tm

mark_failed(tm, id, error) ==
    IF id \in DOMAIN tm.tasks
    THEN [tm EXCEPT !.tasks[id].status = FAILED,
                    !.tasks[id].result = [kind |-> "error", info |-> error],
                    !.failed = @ \cup {id}]
    ELSE tm

\* first phase of PHASE_ORDER, from position i on, that has a task in ready
RECURSIVE first_phase_tasks(_, _, _)
first_phase_tasks(tm, ready, i) ==
    IF i > Len(PHASE_ORDER) THEN ready
    ELSE LET phase_tasks ==
                 SelectSeqBy(ready, {id \in Range(ready) :
                                        tm.tasks[id].phase = PHASE_ORDER[i]})
         IN IF phase_tasks # <<>> THEN phase_tasks
            ELSE first_phase_tasks(tm, ready, i + 1)

\* a get_next_phase_tasks that hands out every ready task at once
get_next_phase_tasks_all_ready(tm) ==
    LET r == get_ready_tasks(tm)
    IN [tm |-> r.tm, ready |-> r.ready]

get_next_phase_tasks(tm) ==
    LET r == get_ready_tasks(tm)
    IN [tm |-> r.tm,
        ready |-> IF r.ready = <<>> THEN <<>>
                  ELSE first_phase_tasks(r.tm, r.ready, 1)]

get_project_status(tm) ==
    [total_tasks |-> Cardinality(DOMAIN tm.tasks),
     completed |-> Cardinality(tm.completed),
     failed |-> Cardinality(tm.failed),
     in_progress |-> Cardinality({id \in DOMAIN tm.tasks :
                                     tm.tasks[id].status = IN_PROGRESS}),
     pending |-> Cardinality({id \in DOMAIN tm.tasks :
                                 tm.tasks[id].status = PENDING})]

\* the completion_percentage entry of get_project_status, its integer part
completion_percentage(tm) ==
    IF Cardinality(DOMAIN tm.tasks) > 0
    THEN (Cardinality(tm.completed) * 100) \div Cardinality(DOMAIN tm.tasks)
    ELSE 0

clear(tm) == EmptyTM

-----------------------------------------------------------------------------
(* Plans handed to start_project.  Each record is one Task(...) of a task   *)
(* list; the lists are excerpts of the built-in templates and small plans   *)
(* of the shapes a generated plan can have.                                 *)

Rec(id, agent, deps, phase) ==
    [task_id |-> id, agent |-> agent, dependencies |-> deps, phase |-> phase]

Plans ==
    { [type |-> "chain",
       records |-> << Rec("1", "Architect", <<>>, "planning"),
                      Rec("2", "Carpenter", <<"1">>, "framing"),
                      Rec("3", "Carpenter", <<"2">>, "framing") >>],
      [type |-> "gate",
       records |-> << Rec("1", "Carpenter", <<>>, "framing"),
                      Rec("2", "Electrician", <<>>, "rough_in"),
                      Rec("3", "Plumber", <<"2">>, "inspection") >>],
      [type |-> "no_worker",
       records |-> << Rec("1", "Permitting", <<>>, "planning") >>],
      [type |-> "group",
       records |-> << Rec("1", "Carpenter", <<>>, "framing"),
                      Rec("2", "Permitting", <<>>, "framing"),
                      Rec("3", "Painter", <<>>, "framing") >>],
      [type |-> "misc",
       records |-> << Rec("1", "Carpenter", <<>>, "demolition"),
                      Rec("2", "Mason", <<>>, "landscaping"),
                      Rec("3", "Architect", <<"1">>, "planning") >>],
      [type |-> "join",
       records |-> << Rec("1", "Mason", <<>>, "framing"),
                      Rec("2", "Carpenter", <<>>, "framing"),
                      Rec("3", "Roofer", <<"1", "2">>, "framing") >>] }

RECURSIVE add_all(_, _)
add_all(tm, records) ==
    IF records = <<>> THEN tm
    ELSE add_all(add_task(tm, Head(records).task_id,
                          Task(Head(records).agent,
                               Head(records).dependencies,
                               Head(records).phase)),
                 Tail(records))

create_project_tasks(tm, plan) == add_all(tm, plan.records)

-----------------------------------------------------------------------------
(* GeneralContractorAgent: execution controller.  G is the agent's mutable  *)
(* state threaded through one stretch of code: the task manager,            *)
(* project_phase, last_error and the record of run-loop dispatches.         *)

G(tm, phase, err, disp) ==
    [tm |-> tm, project_phase |-> phase, last_error |-> err, dispatched |-> disp]

TheG == G(TheTM, project_phase, last_error, dispatched)

NoTask == [task_id |-> None, agent |-> None]

\* the Task objects of a list of ids, as execute_task reads them
TaskObjects(tm, ids) ==
    [i \in DOMAIN ids |-> [task_id |-> ids[i], agent |-> tm.tasks[ids[i]].agent]]

IdleFrame == [kind |-> "idle", pc |-> "idle", cur |-> NoTask, queue |-> <<>>,
              iteration |-> 0]

WorkerOutcomes == {"success", "timeout", "error"}

Ret(id, status, reason) == [task_id |-> id, status |-> status, reason |-> reason]

\* an execute_task that marks the task in progress before looking up the agent
execute_task_entry_unchecked(tm, task) ==
    [tm |-> mark_in_progress(tm, task.task_id),
     suspended |-> TRUE,
     ret |-> Ret(task.task_id, None, None)]

\* execute_task from its entry to the await of the worker: an unregistered
\* agent fails the task at once, otherwise the task is marked in progress
\* and the coroutine suspends.
execute_task_entry(tm, task) ==
    IF task.agent \notin agents
    THEN [tm |-> mark_failed(tm, task.task_id, "CapabilityNotFound"),
          suspended |-> FALSE,
          ret |-> Ret(task.task_id, "error", "CapabilityNotFound")]
    ELSE [tm |-> mark_in_progress(tm, task.task_id),
          suspended |-> TRUE,
          ret |-> Ret(task.task_id, None, None)]

\* an execute_task that takes the late result of a worker that timed out
execute_task_resume_late(tm, task, outcome) ==
    IF outcome = "error"
    THEN [tm |-> mark_failed(tm, task.task_id, "WorkerError"),
          ret |-> Ret(task.task_id, "error", "WorkerError")]
    ELSE [tm |-> mark_completed(tm, task.task_id,
                                [kind |-> "completed", info |-> task.agent]),
          ret |-> Ret(task.task_id, "completed", None)]

\* execute_task from the worker's answer to its return
execute_task_resume(tm, task, outcome) ==
    CASE outcome = "success" ->
           [tm |-> mark_completed(tm, task.task_id,
                                  [kind |-> "completed", info |-> task.agent]),
            ret |-> Ret(task.task_id, "completed", None)]
      [] outcome = "timeout" ->
           [tm |-> mark_failed(tm, task.task_id, "Timeout"),
            ret |-> Ret(task.task_id, "failed", "Timeout")]
      [] OTHER ->
           [tm |-> mark_failed(tm, task.task_id, "WorkerError"),
            ret |-> Ret(task.task_id, "error", "WorkerError")]

CountUp(disp, id) ==
    [k \in DOMAIN disp \cup {id} |->
        IF k = id THEN (IF id \in DOMAIN disp THEN disp[id] + 1 ELSE 1)
        ELSE disp[k]]

\* a loop over the phase group that gives up at the first task that failed
RECURSIVE run_tasks_until_failure(_, _, _, _)
run_tasks_until_failure(tm, disp, queue, rets) ==
    IF queue = <<>> \/ (rets # <<>> /\ rets[Len(rets)].status # "completed")
    THEN [tm |-> tm, dispatched |-> disp, cur |-> NoTask, queue |-> <<>>,
          returns |-> rets]
    ELSE LET e == execute_task_entry(tm, Head(queue))
             d == CountUp(disp, Head(queue).task_id)
         IN IF e.suspended
            THEN [tm |-> e.tm, dispatched |-> d, cur |-> Head(queue),
                  queue |-> Tail(queue), returns |-> rets]
            ELSE run_tasks_until_failure(e.tm, d, Tail(queue),
                                         Append(rets, e.ret))

\* the loop "for task in ready_tasks: await self.execute_task(task)" from its
\* current position up to the next suspension or to its end
RECURSIVE run_tasks(_, _, _, _)
run_tasks(tm, disp, queue, rets) ==
    IF queue = <<>>
    THEN [tm |-> tm, dispatched |-> disp, cur |-> NoTask, queue |-> <<>>,
          returns |-> rets]
    ELSE LET e == execute_task_entry(tm, Head(queue))
             d == CountUp(disp, Head(queue).task_id)
         IN IF e.suspended
            THEN [tm |-> e.tm, dispatched |-> d, cur |-> Head(queue),
                  queue |-> Tail(queue), returns |-> rets]
            ELSE run_tasks(e.tm, d, Tail(queue), Append(rets, e.ret))

NoStatus == [total_tasks |-> 0, completed |-> 0, failed |-> 0,
             in_progress |-> 0, pending |-> 0]

\* Outcome of a stretch of execute_next_phase: either it returned (done, with
\* the status and project_status of the returned dict) or it is suspended in
\* execute_task(cur) with queue still to run.
PhaseStep(g, done, status, ps, cur, queue, rets) ==
    [g |-> g, done |-> done, status |-> status, project_status |-> ps,
     cur |-> cur, queue |-> queue, returns |-> rets]

after_run(g, run) ==
    LET g2 == [g EXCEPT !.tm = run.tm, !.dispatched = run.dispatched]
    IN IF run.cur = NoTask
       THEN PhaseStep(g2, TRUE, "success", get_project_status(run.tm),
                      NoTask, <<>>, run.returns)
       ELSE PhaseStep(g2, FALSE, None, NoStatus, run.cur, run.queue,
                      run.returns)

execute_next_phase_entry(g) ==
    IF g.project_phase = "idle"
    THEN PhaseStep(g, TRUE, "error", NoStatus, NoTask, <<>>, <<>>)
    ELSE LET n == get_next_phase_tasks(g.tm)
             ps == get_project_status(n.tm)
         IN IF n.ready = <<>>
            THEN IF ps.pending = 0 /\ ps.in_progress = 0
                 THEN PhaseStep([g EXCEPT !.tm = n.tm,
                                          !.project_phase = "completed"],
                                TRUE, "success", ps, NoTask, <<>>, <<>>)
                 ELSE PhaseStep([g EXCEPT !.tm = n.tm],
                                TRUE, "waiting", ps, NoTask, <<>>, <<>>)
            ELSE after_run(g, run_tasks(n.tm, g.dispatched,
                                        TaskObjects(n.tm, n.ready), <<>>))

execute_next_phase_resume(g, frame, outcome) ==
    LET r == execute_task_resume(g.tm, frame.cur, outcome)
    IN after_run(g, run_tasks(r.tm, g.dispatched, frame.queue, <<r.ret>>))

-----------------------------------------------------------------------------
(* GeneralContractorAgent: run loop (execute_entire_project) *)

NoError == [type |-> None, blocked_tasks |-> <<>>]

NoReport == [status |-> None, final_status |-> NoStatus, total_iterations |-> 0,
             error_details |-> NoError]

\* what a request answers: errors holds the reasons of a rejected start_project
Response(op, status, report) ==
    [op |-> op, status |-> status, report |-> report, errors |-> {}]

NoResponse == Response(None, None, NoReport)

\* Outcome of a stretch of a request: the agent state, the request's frame
\* (IdleFrame when the request returned), the execute_task returns of the
\* stretch and the response (NoResponse while the request is in flight).
Stretch(g, frame, rets, resp) ==
    [g |-> g, frame |-> frame, returns |-> rets, response |-> resp]

\* a stuck-state report that lists only the tasks waiting for a failed task
blocked_tasks_direct(tm) ==
    SelectSeqBy(tm.order,
                {id \in DOMAIN tm.tasks :
                    /\ tm.tasks[id].status = PENDING
                    /\ \E d \in Range(tm.tasks[id].dependencies) : d \in tm.failed})

blocked_tasks(tm) ==
    SelectSeqBy(tm.order, {id \in DOMAIN tm.tasks : tm.tasks[id].status = PENDING})

\* the code after the while loop: the final report
finish(g, iteration, rets) ==
    LET report == [status |-> IF g.project_phase = "completed"
                              THEN "completed" ELSE "partial",
                   final_status |-> get_project_status(g.tm),
                   total_iterations |-> iteration,
                   error_details |-> g.last_error]
    IN Stretch(g, IdleFrame, rets,
               Response("execute_entire_project", report.status, report))

Sleeping(iteration) ==
    [kind |-> "project", pc |-> "sleep", cur |-> NoTask, queue |-> <<>>,
     iteration |-> iteration]

\* the loop body after "result = await self.execute_next_phase()"
loop_after(s, iteration) ==
    LET g == s.g
        in_progress == s.project_status.in_progress
        pending == s.project_status.pending
    IN IF s.status = "success" /\ g.project_phase = "completed"
       THEN finish(g, iteration, s.returns)
       ELSE IF s.status = "error"
       THEN finish(g, iteration, s.returns)
       ELSE IF s.status = "waiting"
       THEN IF in_progress = 0 /\ pending > 0
            THEN finish([g EXCEPT !.last_error =
                            [type |-> "stuck_state",
                             blocked_tasks |-> blocked_tasks(g.tm)]],
                        iteration, s.returns)
            ELSE IF in_progress = 0 /\ pending = 0
            THEN finish(g, iteration, s.returns)
            ELSE Stretch(g, Sleeping(iteration), s.returns, NoResponse)
       ELSE Stretch(g, Sleeping(iteration), s.returns, NoResponse)

Awaiting(kind, s, iteration) ==
    [kind |-> kind, pc |-> "await", cur |-> s.cur, queue |-> s.queue,
     iteration |-> iteration]

\* a while loop without the test of the iteration count
loop_head_uncapped(g, iteration) ==
    LET s == execute_next_phase_entry(g)
    IN IF s.done
       THEN loop_after(s, iteration + 1)
       ELSE Stretch(s.g, Awaiting("project", s, iteration + 1),
                    s.returns, NoResponse)

\* the while loop from its head to the next suspension
loop_head(g, iteration) ==
    IF iteration >= max_iterations
    THEN finish(g, iteration, <<>>)
    ELSE LET s == execute_next_phase_entry(g)
         IN IF s.done
            THEN loop_after(s, iteration + 1)
            ELSE Stretch(s.g, Awaiting("project", s, iteration + 1),
                         s.returns, NoResponse)

execute_entire_project(g) ==
    IF g.project_phase = "idle"
    THEN Stretch(g, IdleFrame, <<>>,
                 Response("execute_entire_project", "error", NoReport))
    ELSE loop_head([g EXCEPT !.project_phase = "in_progress"], 0)

\* a request of any kind resumed by the answer of the worker it awaits
resume(g, frame, outcome) ==
    LET s == execute_next_phase_resume(g, frame, outcome)
    IN IF ~s.done
       THEN Stretch(s.g, Awaiting(frame.kind, s, frame.iteration),
                    s.returns, NoResponse)
       ELSE IF frame.kind = "project"
       THEN loop_after(s, frame.iteration)
       ELSE IF frame.kind = "retry"
       THEN Stretch(s.g, IdleFrame, s.returns,
                    Response("retry_task", "success", NoReport))
       ELSE Stretch(s.g, IdleFrame, s.returns,
                    Response("execute_next_phase", s.status, NoReport))

\* execute_next_phase called as a request of its own
execute_next_phase(g) ==
    LET s == execute_next_phase_entry(g)
    IN IF s.done
       THEN Stretch(s.g, IdleFrame, s.returns,
                    Response("execute_next_phase", s.status, NoReport))
       ELSE Stretch(s.g, Awaiting("phase", s, 0), s.returns, NoResponse)

-----------------------------------------------------------------------------
(* Operator endpoints of routes.py *)

\* TaskManager.mark_ready: the retry operation resets one Failed task to Ready
mark_ready(tm, id) ==
    IF id \in DOMAIN tm.tasks
    THEN [tm EXCEPT !.tasks[id].status = READY,
                    !.failed = @ \ {id}]
    ELSE tm

\* a skip_task that reads the task's status for its note after marking it
skip_task_note_after(g, id) ==
    IF id \notin DOMAIN g.tm.tasks
    THEN Stretch(g, IdleFrame, <<>>, Response("skip_task", "not_found", NoReport))
    ELSE Stretch([g EXCEPT !.tm =
                     mark_completed(g.tm, id,
                                    [kind |-> "skipped", info |-> COMPLETED])],
                 IdleFrame, <<>>, Response("skip_task", "success", NoReport))

skip_task(g, id) ==
    IF id \notin DOMAIN g.tm.tasks
    THEN Stretch(g, IdleFrame, <<>>, Response("skip_task", "not_found", NoReport))
    ELSE Stretch([g EXCEPT !.tm =
                     mark_completed(g.tm, id,
                                    [kind |-> "skipped",
                                     info |-> g.tm.tasks[id].status])],
                 IdleFrame, <<>>, Response("skip_task", "success", NoReport))

\* a retry_task without the test of the task's status
retry_task_any_state(g, id) ==
    IF id \notin DOMAIN g.tm.tasks
    THEN Stretch(g, IdleFrame, <<>>, Response("retry_task", "not_found", NoReport))
    ELSE LET task == [task_id |-> id, agent |-> g.tm.tasks[id].agent]
             e == execute_task_entry(mark_ready(g.tm, id), task)
         IN IF e.suspended
            THEN Stretch([g EXCEPT !.tm = e.tm],
                         [kind |-> "retry", pc |-> "await", cur |-> task,
                          queue |-> <<>>, iteration |-> 0],
                         <<>>, NoResponse)
            ELSE Stretch([g EXCEPT !.tm = e.tm], IdleFrame, <<e.ret>>,
                         Response("retry_task", "success", NoReport))

retry_task(g, id) ==
    IF id \notin DOMAIN g.tm.tasks
    THEN Stretch(g, IdleFrame, <<>>, Response("retry_task", "not_found", NoReport))
    ELSE IF g.tm.tasks[id].status # FAILED
    THEN Stretch(g, IdleFrame, <<>>,
                 Response("retry_task", "invalid_state", NoReport))
    ELSE LET task == [task_id |-> id, agent |-> g.tm.tasks[id].agent]
             e == execute_task_entry(mark_ready(g.tm, id), task)
         IN IF e.suspended
            THEN Stretch([g EXCEPT !.tm = e.tm],
                         [kind |-> "retry", pc |-> "await", cur |-> task,
                          queue |-> <<>>, iteration |-> 0],
                         <<>>, NoResponse)
            ELSE Stretch([g EXCEPT !.tm = e.tm], IdleFrame, <<e.ret>>,
                         Response("retry_task", "success", NoReport))

-----------------------------------------------------------------------------
(* State machine *)

Slots == {"r1", "r2"}

OperatorIds == {"1", "2", "3", "9"}

NoProject == [type |-> None, status |-> None]

NoAnswer == [task_id |-> None, outcome |-> None]

\* no ToolCallTracker has been constructed
NoTracker == [max_total_calls |-> None]

\* the planning agent has not been asked
NoPlan == [kind |-> None, tasks |-> <<>>]

Init ==
    /\ tasks = <<>>
    /\ order = <<>>
    /\ completed_tasks = {}
    /\ failed_tasks = {}
    /\ project_phase = "idle"
    /\ current_project = NoProject
    /\ last_error = NoError
    /\ req = [r \in Slots |-> IdleFrame]
    /\ returns = <<>>
    /\ response = NoResponse
    /\ worker_answer = NoAnswer
    /\ dispatched = <<>>
    /\ starts = 0
    /\ ops = 0
    /\ tracker = NoTracker
    /\ signal = <<>>
    /\ tool_calls = <<>>
    /\ planner_result = NoPlan
    /\ events = <<>>
    /\ subscribers = <<>>

Quiescent == \A r \in Slots : req[r].kind = "idle"

\* install the outcome of a stretch of request r
Install(r, st) ==
    /\ tasks' = st.g.tm.tasks
    /\ order' = st.g.tm.order
    /\ completed_tasks' = st.g.tm.completed
    /\ failed_tasks' = st.g.tm.failed
    /\ project_phase' = st.g.project_phase
    /\ last_error' = st.g.last_error
    /\ dispatched' = st.g.dispatched
    /\ req' = [req EXCEPT ![r] = st.frame]
    /\ returns' = st.returns
    /\ response' = st.response

\* start_project on the template path: the new Task objects replace the
\* tasks of the same id, the manager's sets are left as they are
StartProject(plan) ==
    /\ starts' = starts + 1
    /\ current_project' = [type |-> plan.type, status |-> "planning"]
    /\ LET tm == create_project_tasks(TheTM, plan)
           ids == {plan.records[i].task_id : i \in DOMAIN plan.records}
       IN /\ tasks' = tm.tasks
          /\ order' = tm.order
          /\ completed_tasks' = tm.completed
          /\ failed_tasks' = tm.failed
          /\ dispatched' = [k \in DOMAIN dispatched \ ids |-> dispatched[k]]
    /\ project_phase' = "planning"
    /\ returns' = <<>>
    /\ response' = Response("start_project", "success", NoReport)
    /\ worker_answer' = NoAnswer
    /\ UNCHANGED <<last_error, req, ops>>
    /\ UNCHANGED <<guard_vars, planning_vars, telemetry_vars>>

Reset ==
    /\ tasks' = clear(TheTM).tasks
    /\ order' = clear(TheTM).order
    /\ completed_tasks' = clear(TheTM).completed
    /\ failed_tasks' = clear(TheTM).failed
    /\ current_project' = NoProject
    /\ project_phase' = "idle"
    /\ dispatched' = <<>>
    /\ returns' = <<>>
    /\ response' = Response("reset", "success", NoReport)
    /\ worker_answer' = NoAnswer
    /\ UNCHANGED <<last_error, req, starts, ops>>
    /\ UNCHANGED <<guard_vars, planning_vars, telemetry_vars>>

ExecuteNextPhase(r) ==
    /\ req[r].kind = "idle"
    /\ Install(r, execute_next_phase(TheG))
    /\ worker_answer' = NoAnswer
    /\ UNCHANGED <<current_project, starts, ops>>
    /\ UNCHANGED <<guard_vars, planning_vars, telemetry_vars>>

ExecuteEntireProject(r) ==
    /\ req[r].kind = "idle"
    /\ Install(r, execute_entire_project(TheG))
    /\ worker_answer' = NoAnswer
    /\ UNCHANGED <<current_project, starts, ops>>
    /\ UNCHANGED <<guard_vars, planning_vars, telemetry_vars>>

\* the worker awaited by request r answers, fails or runs out of time
WorkerReturns(r, outcome) ==
    /\ req[r].pc = "await"
    /\ Install(r, resume(TheG, req[r], outcome))
    /\ worker_answer' = [task_id |-> req[r].cur.task_id, outcome |-> outcome]
    /\ UNCHANGED <<current_project, starts, ops>>
    /\ UNCHANGED <<guard_vars, planning_vars, telemetry_vars>>

\* asyncio.sleep between two passes of the run loop is over
LoopWakes(r) ==
    /\ req[r].pc = "sleep"
    /\ Install(r, loop_head(TheG, req[r].iteration))
    /\ worker_answer' = NoAnswer
    /\ UNCHANGED <<current_project, starts, ops>>
    /\ UNCHANGED <<guard_vars, planning_vars, telemetry_vars>>

SkipTask(r, id) ==
    /\ req[r].kind = "idle"
    /\ ops < MaxOps
    /\ ops' = ops + 1
    /\ Install(r, skip_task(TheG, id))
    /\ worker_answer' = NoAnswer
    /\ UNCHANGED <<current_project, starts>>
    /\ UNCHANGED <<guard_vars, planning_vars, telemetry_vars>>

RetryTask(r, id) ==
    /\ req[r].kind = "idle"
    /\ ops < MaxOps
    /\ ops' = ops + 1
    /\ Install(r, retry_task(TheG, id))
    /\ worker_answer' = NoAnswer
    /\ UNCHANGED <<current_project, starts>>
    /\ UNCHANGED <<guard_vars, planning_vars, telemetry_vars>>

\* Requests arrive one after another: a request is accepted only when no
\* other request is in flight.
Next ==
    \/ \E plan \in Plans : Quiescent /\ starts < MaxStarts /\ StartProject(plan)
    \/ Quiescent /\ Reset
    \/ Quiescent /\ ExecuteNextPhase("r1")
    \/ Quiescent /\ ExecuteEntireProject("r1")
    \/ \E id \in OperatorIds : Quiescent /\ SkipTask("r1", id)
    \/ \E id \in OperatorIds : Quiescent /\ RetryTask("r1", id)
    \/ \E outcome \in WorkerOutcomes : WorkerReturns("r1", outcome)
    \/ LoopWakes("r1")

Spec == Init /\ [][Next]_vars

\* The same with one more start_project: a project is started again, with or
\* without a reset() in between.
NextRestart ==
    \/ \E plan \in Plans : Quiescent /\ starts < MaxStarts + 1 /\ StartProject(plan)
    \/ Quiescent /\ Reset
    \/ Quiescent /\ ExecuteNextPhase("r1")
    \/ Quiescent /\ ExecuteEntireProject("r1")
    \/ \E id \in OperatorIds : Quiescent /\ SkipTask("r1", id)
    \/ \E id \in OperatorIds : Quiescent /\ RetryTask("r1", id)
    \/ \E outcome \in WorkerOutcomes : WorkerReturns("r1", outcome)
    \/ LoopWakes("r1")

SpecRestart == Init /\ [][NextRestart]_vars

\* Projects one after another on one agent: a new project is started only
\* on the idle agent, that is first or after reset(), and each is run by
\* execute_entire_project.
NextSuccession ==
    \/ \E plan \in Plans :
          /\ Quiescent /\ project_phase = "idle" /\ starts < MaxStarts + 1
          /\ StartProject(plan)
    \/ Quiescent /\ Reset
    \/ Quiescent /\ ExecuteEntireProject("r1")
    \/ \E outcome \in WorkerOutcomes : WorkerReturns("r1", outcome)
    \/ LoopWakes("r1")

SpecSuccession == Init /\ [][NextSuccession]_vars

-----------------------------------------------------------------------------
(* get_ready_tasks on its own: every dependency graph of MaxGraph tasks     *)
(* whose dependencies point to earlier ids, in both dict orders, with every *)
(* assignment of statuses and every completed set.                          *)

IdName == <<"1", "2", "3", "4", "5">>

GraphIds == {IdName[i] : i \in 1..MaxGraph}

RECURSIVE AscendingSeq(_, _)
AscendingSeq(S, i) ==
    IF i > Len(IdName) THEN <<>>
    ELSE (IF IdName[i] \in S THEN <<IdName[i]>> ELSE <<>>)
         \o AscendingSeq(S, i + 1)

DependencyLists(i) == {AscendingSeq(S, 1) : S \in SUBSET {IdName[j] : j \in 1..(i - 1)}}

GraphStatuses == {PENDING, READY, COMPLETED, FAILED}

Graphs ==
    {g \in [GraphIds -> [agent : {"Carpenter"}, phase : {"framing"},
                         dependencies : UNION {DependencyLists(i) : i \in 1..MaxGraph},
                         status : GraphStatuses, result : {NoResult}]] :
        \A i \in 1..MaxGraph : g[IdName[i]].dependencies \in DependencyLists(i)}

InitReady ==
    /\ tasks \in Graphs
    /\ order \in {[i \in 1..MaxGraph |-> IdName[i]],
                  [i \in 1..MaxGraph |-> IdName[MaxGraph + 1 - i]]}
    /\ completed_tasks \in SUBSET GraphIds
    /\ failed_tasks = {}
    /\ project_phase = "planning"
    /\ current_project = NoProject
    /\ last_error = NoError
    /\ req = [r \in Slots |-> IdleFrame]
    /\ returns = <<>>
    /\ response = NoResponse
    /\ worker_answer = NoAnswer
    /\ dispatched = <<>>
    /\ starts = 0
    /\ ops = 0
    /\ tracker = NoTracker
    /\ signal = <<>>
    /\ tool_calls = <<>>
    /\ planner_result = NoPlan
    /\ events = <<>>
    /\ subscribers = <<>>

GetReadyTasks ==
    /\ tasks' = get_ready_tasks(TheTM).tm.tasks
    /\ returns' = get_ready_tasks(TheTM).ready
    /\ response' = Response("get_ready_tasks", "success", NoReport)
    /\ UNCHANGED <<order, completed_tasks, failed_tasks, project_phase,
                   current_project, last_error, req, worker_answer,
                   dispatched, starts, ops>>
    /\ UNCHANGED <<guard_vars, planning_vars, telemetry_vars>>

NextReady == GetReadyTasks

SpecReady == InitReady /\ [][NextReady]_vars

-----------------------------------------------------------------------------
(* get_next_phase_tasks on its own: graphs of MaxGraph tasks in phases of   *)
(* PHASE_ORDER and in phases it does not list, each task waiting for        *)
(* nothing or for the task before it, pending or completed.                 *)

PhaseNames == {"foundation", "framing", "demolition", "landscaping"}

PhaseGraphs ==
    {g \in [GraphIds -> [agent : {"Carpenter"}, phase : PhaseNames,
                         dependencies : {<<>>} \cup {<<id>> : id \in GraphIds},
                         status : {PENDING, COMPLETED}, result : {NoResult}]] :
        \A i \in 1..MaxGraph :
           g[IdName[i]].dependencies \in
              {<<>>} \cup {<<IdName[j]>> : j \in {i - 1} \cap (1..MaxGraph)}}

InitPhases ==
    /\ tasks \in PhaseGraphs
    /\ order \in {[i \in 1..MaxGraph |-> IdName[i]],
                  [i \in 1..MaxGraph |-> IdName[MaxGraph + 1 - i]]}
    /\ completed_tasks = {id \in DOMAIN tasks : tasks[id].status = COMPLETED}
    /\ failed_tasks = {}
    /\ project_phase = "planning"
    /\ current_project = NoProject
    /\ last_error = NoError
    /\ req = [r \in Slots |-> IdleFrame]
    /\ returns = <<>>
    /\ response = NoResponse
    /\ worker_answer = NoAnswer
    /\ dispatched = <<>>
    /\ starts = 0
    /\ ops = 0
    /\ tracker = NoTracker
    /\ signal = <<>>
    /\ tool_calls = <<>>
    /\ planner_result = NoPlan
    /\ events = <<>>
    /\ subscribers = <<>>

GetNextPhaseTasks ==
    /\ tasks' = get_next_phase_tasks(TheTM).tm.tasks
    /\ returns' = get_next_phase_tasks(TheTM).ready
    /\ response' = Response("get_next_phase_tasks", "success", NoReport)
    /\ UNCHANGED <<order, completed_tasks, failed_tasks, project_phase,
                   current_project, last_error, req, worker_answer,
                   dispatched, starts, ops>>
    /\ UNCHANGED <<guard_vars, planning_vars, telemetry_vars>>

NextPhases == GetNextPhaseTasks

SpecPhases == InitPhases /\ [][NextPhases]_vars

-----------------------------------------------------------------------------
(* The TaskManager driven by hand on a linear chain: task i waits for task  *)
(* i - 1.  The caller asks for the ready tasks and marks the tasks it was   *)
(* given in progress, completed or failed.                                  *)

MaxChain == 4

Chain(n) ==
    [i \in 1..n |-> Rec(IdName[i], "Carpenter",
                        IF i = 1 THEN <<>> ELSE <<IdName[i - 1]>>, "framing")]

InitChain ==
    /\ \E n \in 1..MaxChain, reversed \in BOOLEAN :
          LET records == IF reversed THEN [i \in 1..n |-> Chain(n)[n + 1 - i]]
                         ELSE Chain(n)
          IN /\ tasks = add_all(EmptyTM, records).tasks
             /\ order = add_all(EmptyTM, records).order
    /\ completed_tasks = {}
    /\ failed_tasks = {}
    /\ project_phase = "planning"
    /\ current_project = NoProject
    /\ last_error = NoError
    /\ req = [r \in Slots |-> IdleFrame]
    /\ returns = <<>>
    /\ response = NoResponse
    /\ worker_answer = NoAnswer
    /\ dispatched = <<>>
    /\ starts = 0
    /\ ops = 0
    /\ tracker = NoTracker
    /\ signal = <<>>
    /\ tool_calls = <<>>
    /\ planner_result = NoPlan
    /\ events = <<>>
    /\ subscribers = <<>>

\* the tasks the caller holds: handed out by get_ready_tasks and not finished
Held == {id \in DOMAIN tasks : tasks[id].status \in {READY, IN_PROGRESS}}

\* one call of a mark_* method; returns keeps the list of the last
\* get_ready_tasks call
Mark(op, tm) ==
    /\ tasks' = tm.tasks
    /\ completed_tasks' = tm.completed
    /\ failed_tasks' = tm.failed
    /\ response' = Response(op, "success", NoReport)
    /\ UNCHANGED <<order, project_phase, current_project, last_error, req,
                   returns, worker_answer, dispatched, starts, ops>>
    /\ UNCHANGED <<guard_vars, planning_vars, telemetry_vars>>

MarkInProgress(id) ==
    /\ tasks[id].status = READY
    /\ Mark("mark_in_progress", mark_in_progress(TheTM, id))

MarkCompleted(id) ==
    Mark("mark_completed",
         mark_completed(TheTM, id, [kind |-> "completed", info |-> tasks[id].agent]))

MarkFailed(id) == Mark("mark_failed", mark_failed(TheTM, id, "WorkerError"))

NextChain ==
    \/ GetReadyTasks
    \/ \E id \in Held : MarkInProgress(id)
    \/ \E id \in Held : MarkCompleted(id)
    \/ \E id \in Held : MarkFailed(id)

SpecChain == InitChain /\ [][NextChain]_vars

-----------------------------------------------------------------------------
(* ToolCallTracker (backend/utils/loop_detection.py)                        *)

\* Python's s[start:] and s[:stop] with a possibly negative index
Normalize(i, n) ==
    IF i < 0 THEN (IF n + i < 0 THEN 0 ELSE n + i)
    ELSE (IF i > n THEN n ELSE i)

SliceFrom(s, start) == SubSeq(s, Normalize(start, Len(s)) + 1, Len(s))

SliceTo(s, stop) == SubSeq(s, 1, Normalize(stop, Len(s)))

\* A parameters dict is the sequence of its items in insertion order.  The
\* keys the calls of the model use, in the order of Python's str comparison:
ParamKeys == <<"mode", "path">>

\* sorted(parameters.items())
RECURSIVE sorted_items(_, _)
sorted_items(parameters, i) ==
    IF i > Len(ParamKeys) THEN <<>>
    ELSE SelectSeq(parameters, LAMBDA item : item.key = ParamKeys[i])
         \o sorted_items(parameters, i + 1)

call_signature(tool_name, parameters) == <<tool_name, sorted_items(parameters, 1)>>

ToolCallTracker(max_total_calls, max_identical_calls, max_recent_repeats) ==
    [max_total_calls |-> max_total_calls,
     max_identical_calls |-> max_identical_calls,
     max_recent_repeats |-> max_recent_repeats,
     call_history |-> <<>>,
     call_counts |-> <<>>,
     loop_detected |-> FALSE,
     loop_reason |-> ""]

\* self.call_counts[call_signature] += 1 on a defaultdict(int)
count_call(call_counts, sig) ==
    [k \in DOMAIN call_counts \cup {sig} |->
        IF k = sig THEN (IF sig \in DOMAIN call_counts THEN call_counts[sig] + 1 ELSE 1)
        ELSE call_counts[k]]

\* a total-calls test that already fires when the ceiling is reached
check_total_calls_inclusive(t) == Len(t.call_history) >= t.max_total_calls

\* Check 1: too many total calls
check_total_calls(t) == Len(t.call_history) > t.max_total_calls

\* an identical-calls test that already fires when the ceiling is reached
check_identical_calls_inclusive(t, sig) == t.call_counts[sig] >= t.max_identical_calls

\* Check 2: same call repeated too many times
check_identical_calls(t, sig) == t.call_counts[sig] > t.max_identical_calls

\* a pattern test that waits for one call more than two windows
check_repeating_pattern_late(t) ==
    /\ Len(t.call_history) > t.max_recent_repeats * 2
    /\ LET recent == SliceFrom(t.call_history, (0 - t.max_recent_repeats) * 2)
       IN SliceTo(recent, t.max_recent_repeats)
          = SliceFrom(recent, t.max_recent_repeats)

\* Check 3: repeating pattern in recent calls
check_repeating_pattern(t) ==
    /\ Len(t.call_history) >= t.max_recent_repeats * 2
    /\ LET recent == SliceFrom(t.call_history, (0 - t.max_recent_repeats) * 2)
           first_half == SliceTo(recent, t.max_recent_repeats)
           second_half == SliceFrom(recent, t.max_recent_repeats)
       IN first_half = second_half

Detected(t, reason) == [t EXCEPT !.loop_detected = TRUE, !.loop_reason = reason]

\* track_call gives the tracker afterwards and the value returned (TRUE:
\* continue). First a variant that clears loop_detected on a call that passes
\* the checks.
track_call_clearing(t, tool_name, parameters) ==
    LET sig == call_signature(tool_name, parameters)
        t1 == [t EXCEPT !.call_history = Append(@, sig),
                        !.call_counts = count_call(@, sig)]
    IN IF check_total_calls(t1)
       THEN [tracker |-> Detected(t1, "max_total_calls"), continue |-> FALSE]
       ELSE IF check_identical_calls(t1, sig)
       THEN [tracker |-> Detected(t1, "max_identical_calls"), continue |-> FALSE]
       ELSE IF check_repeating_pattern(t1)
       THEN [tracker |-> Detected(t1, "repeating_pattern"), continue |-> FALSE]
       ELSE [tracker |-> [t1 EXCEPT !.loop_detected = FALSE], continue |-> TRUE]

track_call(t, tool_name, parameters) ==
    LET sig == call_signature(tool_name, parameters)
        t1 == [t EXCEPT !.call_history = Append(@, sig),
                        !.call_counts = count_call(@, sig)]
    IN IF check_total_calls(t1)
       THEN [tracker |-> Detected(t1, "max_total_calls"), continue |-> FALSE]
       ELSE IF check_identical_calls(t1, sig)
       THEN [tracker |-> Detected(t1, "max_identical_calls"), continue |-> FALSE]
       ELSE IF check_repeating_pattern(t1)
       THEN [tracker |-> Detected(t1, "repeating_pattern"), continue |-> FALSE]
       ELSE [tracker |-> t1, continue |-> TRUE]

\* a reset that forgets to clear the per-signature counts
ToolCallTracker_reset_history_only(t) ==
    [t EXCEPT !.call_history = <<>>, !.loop_detected = FALSE, !.loop_reason = ""]

\* ToolCallTracker.reset
ToolCallTracker_reset(t) ==
    [t EXCEPT !.call_history = <<>>, !.call_counts = <<>>,
              !.loop_detected = FALSE, !.loop_reason = ""]

-----------------------------------------------------------------------------
(* The tracker on its own: a tracker constructed with any ceilings up to    *)
(* MaxCeiling or with the defaults, fed any sequence of up to MaxCalls      *)
(* calls, or one call repeated up to MaxRun times, and reset at any moment. *)

MaxCeiling == 3
MaxCalls == 6
MaxRun == 21

Item(key, value) == [key |-> key, value |-> value]

\* tool calls (tool name, parameters dict): three signatures, one of them
\* written with its parameters in either order
ToolCalls ==
    { [name |-> "callTool", input |-> <<>>],
      [name |-> "callTool", input |-> <<Item("path", "a"), Item("mode", "r")>>],
      [name |-> "callTool", input |-> <<Item("mode", "r"), Item("path", "a")>>],
      [name |-> "readFile", input |-> <<>>] }

DefaultTracker == ToolCallTracker(20, 2, 3)

Trackers ==
    {ToolCallTracker(a, b, c) : a, b, c \in 0..MaxCeiling}
    \cup {DefaultTracker, ToolCallTracker(20, 2, 2)}

InitTracker ==
    /\ LET tm == create_project_tasks(
                     EmptyTM, CHOOSE plan \in Plans : plan.type = "chain")
       IN /\ tasks = tm.tasks
          /\ order = tm.order
          /\ completed_tasks = tm.completed
          /\ failed_tasks = tm.failed
    /\ project_phase = "planning"
    /\ current_project = [type |-> "chain", status |-> "planning"]
    /\ last_error = NoError
    /\ req = [r \in Slots |-> IdleFrame]
    /\ returns = <<>>
    /\ response = Response("start_project", "success", NoReport)
    /\ worker_answer = NoAnswer
    /\ dispatched = <<>>
    /\ starts = 1
    /\ ops = 0
    /\ tracker \in Trackers
    /\ signal = <<>>
    /\ tool_calls = <<>>
    /\ planner_result = NoPlan
    /\ events = <<>>
    /\ subscribers = <<>>

graph_vars == <<tasks, order, completed_tasks, failed_tasks, project_phase,
                current_project, last_error, req, returns, response,
                worker_answer, dispatched, starts, ops, planning_vars,
                telemetry_vars>>

TrackCall(call) ==
    /\ LET h == tracker.call_history
       IN \/ Len(h) < MaxCalls
          \/ /\ Len(h) < MaxRun
             /\ \A i \in DOMAIN h : h[i] = call_signature(call.name, call.input)
    /\ tracker' = track_call(tracker, call.name, call.input).tracker
    /\ signal' = <<track_call(tracker, call.name, call.input).continue>>
    /\ UNCHANGED <<graph_vars, tool_calls>>

ResetTracker ==
    /\ tracker.call_history # <<>>
    /\ tracker' = ToolCallTracker_reset(tracker)
    /\ UNCHANGED <<graph_vars, signal, tool_calls>>

NextTracker ==
    \/ \E call \in ToolCalls : TrackCall(call)
    \/ ResetTracker

SpecTracker == InitTracker /\ [][NextTracker]_vars

-----------------------------------------------------------------------------
(* A worker's tool calls while it services a task: _execute_with_streaming  *)
(* receives the worker's tool_use events and hands each to the activity     *)
(* logger.  A project of any plan is started, execute_next_phase runs, and  *)
(* the awaited worker makes up to MaxTools tool calls before it answers.    *)

MaxTools == 3

\* activity_logger.log_tool_call: the event is recorded under the task's id
log_tool_call(log, task_id, call) ==
    [k \in DOMAIN log \cup {task_id} |->
        IF k = task_id
        THEN Append(IF task_id \in DOMAIN log THEN log[task_id] ELSE <<>>, call)
        ELSE log[k]]

RECURSIVE LoggedCalls(_)
LoggedCalls(log) ==
    IF DOMAIN log = {} THEN 0
    ELSE LET id == CHOOSE k \in DOMAIN log : TRUE
         IN Len(log[id]) + LoggedCalls([k \in DOMAIN log \ {id} |-> log[k]])

InitStream ==
    /\ \E plan \in Plans :
          LET tm == create_project_tasks(EmptyTM, plan)
          IN /\ tasks = tm.tasks
             /\ order = tm.order
             /\ completed_tasks = tm.completed
             /\ failed_tasks = tm.failed
             /\ current_project = [type |-> plan.type, status |-> "planning"]
    /\ project_phase = "planning"
    /\ last_error = NoError
    /\ req = [r \in Slots |-> IdleFrame]
    /\ returns = <<>>
    /\ response = Response("start_project", "success", NoReport)
    /\ worker_answer = NoAnswer
    /\ dispatched = <<>>
    /\ starts = 1
    /\ ops = 0
    /\ tracker = NoTracker
    /\ signal = <<>>
    /\ tool_calls = <<>>
    /\ planner_result = NoPlan
    /\ events = <<>>
    /\ subscribers = <<>>

\* the worker awaited by request r streams a tool_use event
ToolUse(r, call) ==
    /\ req[r].pc = "await"
    /\ LoggedCalls(tool_calls) < MaxTools
    /\ tool_calls' = log_tool_call(tool_calls, req[r].cur.task_id, call)
    /\ UNCHANGED <<graph_vars, tracker, signal>>

NextStream ==
    \/ Quiescent /\ ExecuteNextPhase("r1")
    \/ \E call \in ToolCalls : ToolUse("r1", call)
    \/ \E outcome \in WorkerOutcomes : WorkerReturns("r1", outcome)

SpecStream == InitStream /\ [][NextStream]_vars

-----------------------------------------------------------------------------
(* Requests that overlap: the HTTP server accepts an operator's skip or     *)
(* retry while a run or a phase awaits a worker (slot r1 carries the run,   *)
(* slot r2 the operator's request).  A project of any plan is started.      *)

NextConc ==
    \/ req["r1"].kind = "idle" /\ ExecuteNextPhase("r1")
    \/ req["r1"].kind = "idle" /\ ExecuteEntireProject("r1")
    \/ \E id \in OperatorIds : SkipTask("r2", id)
    \/ \E id \in OperatorIds : RetryTask("r2", id)
    \/ \E r \in Slots, outcome \in WorkerOutcomes : WorkerReturns(r, outcome)
    \/ LoopWakes("r1")

SpecConc == InitStream /\ [][NextConc]_vars

\* The operator resets the agent and starts a new project while the phase
\* request of the project before (slot r1) still awaits a worker.
NextOverlap ==
    \/ starts = 1 /\ req["r1"].kind = "idle" /\ ExecuteNextPhase("r1")
    \/ Reset
    \/ \E plan \in Plans :
          project_phase = "idle" /\ starts < MaxStarts + 1 /\ StartProject(plan)
    \/ \E outcome \in WorkerOutcomes : WorkerReturns("r1", outcome)

SpecOverlap == InitStream /\ [][NextOverlap]_vars

-----------------------------------------------------------------------------
(* Plan ingestion: start_project with its validation of the request, the    *)
(* built-in templates of TaskManager and the dynamic path through the       *)
(* planning agent (_create_dynamic_project_plan, _parse_planning_result,    *)
(* create_tasks_from_plan).                                                 *)

MaxPlan == 3

\* str(task_id) for the task counters of the templates
str(n) ==
    <<"1", "2", "3", "4", "5", "6", "7", "8", "9", "10", "11", "12", "13",
      "14", "15">>[n]

SUPPORTED_PROJECT_TYPES ==
    {"kitchen_remodel", "bathroom_remodel", "new_construction", "addition",
     "shed_construction"}

create_kitchen_remodel_tasks ==
    << Rec("1", "Architect", <<>>, "planning"),
       Rec("2", "Permitting", <<"1">>, "permitting"),
       Rec("3", "Carpenter", <<"2">>, "demolition"),
       Rec("4", "Plumber", <<"3">>, "rough_in"),
       Rec("5", "Electrician", <<"3">>, "rough_in"),
       Rec("6", "Permitting", <<"4", "5">>, "inspection"),
       Rec("7", "Carpenter", <<"6">>, "finishing"),
       Rec("8", "Electrician", <<"7">>, "finishing"),
       Rec("9", "Plumber", <<"7">>, "finishing"),
       Rec("10", "Painter", <<"7">>, "finishing"),
       Rec("11", "Permitting", <<"8", "9", "10">>, "final_inspection") >>

create_bathroom_remodel_tasks ==
    << Rec("1", "Architect", <<>>, "planning"),
       Rec("2", "Permitting", <<"1">>, "permitting"),
       Rec("3", "Carpenter", <<"2">>, "demolition"),
       Rec("4", "Plumber", <<"3">>, "rough_in"),
       Rec("5", "Electrician", <<"3">>, "rough_in"),
       Rec("6", "Permitting", <<"4", "5">>, "inspection"),
       Rec("7", "Carpenter", <<"6">>, "finishing"),
       Rec("8", "Painter", <<"7">>, "finishing"),
       Rec("9", "Plumber", <<"8">>, "finishing"),
       Rec("10", "Electrician", <<"8">>, "finishing"),
       Rec("11", "Permitting", <<"9", "10">>, "final_inspection") >>

create_new_construction_tasks ==
    << Rec("1", "Architect", <<>>, "planning"),
       Rec("2", "Permitting", <<"1">>, "permitting"),
       Rec("3", "Mason", <<"2">>, "foundation"),
       Rec("4", "Carpenter", <<"3">>, "framing"),
       Rec("5", "Roofer", <<"4">>, "framing"),
       Rec("6", "Electrician", <<"4">>, "rough_in"),
       Rec("7", "Plumber", <<"4">>, "rough_in"),
       Rec("8", "HVAC", <<"4">>, "rough_in"),
       Rec("9", "Permitting", <<"6", "7", "8">>, "inspection"),
       Rec("10", "Carpenter", <<"9">>, "finishing"),
       Rec("11", "Painter", <<"10">>, "finishing"),
       Rec("12", "Carpenter", <<"11">>, "finishing"),
       Rec("13", "Electrician", <<"10">>, "finishing"),
       Rec("14", "Plumber", <<"10">>, "finishing"),
       Rec("15", "Permitting", <<"12", "13", "14">>, "final_inspection") >>

create_addition_tasks ==
    << Rec("1", "Architect", <<>>, "planning"),
       Rec("2", "Permitting", <<"1">>, "permitting"),
       Rec("3", "Mason", <<"2">>, "foundation"),
       Rec("4", "Carpenter", <<"3">>, "framing"),
       Rec("5", "Roofer", <<"4">>, "framing"),
       Rec("6", "Electrician", <<"4">>, "rough_in"),
       Rec("7", "Plumber", <<"4">>, "rough_in"),
       Rec("8", "HVAC", <<"4">>, "rough_in"),
       Rec("9", "Permitting", <<"6", "7", "8">>, "inspection"),
       Rec("10", "Carpenter", <<"9">>, "finishing"),
       Rec("11", "Painter", <<"10">>, "finishing"),
       Rec("12", "Permitting", <<"11">>, "final_inspection") >>

\* a shed template that numbers its tasks as if the foundation task were
\* always there
create_shed_construction_tasks_fixed_ids(has_foundation, has_electrical) ==
    LET n == 3
        planning == << Rec("1", "Architect", <<>>, "planning") >>
        foundation == IF has_foundation
                      THEN << Rec("2", "Mason", <<"1">>, "foundation") >>
                      ELSE <<>>
        framing == << Rec(str(n), "Carpenter", <<str(n - 1)>>, "framing"),
                      Rec(str(n + 1), "Carpenter", <<str(n)>>, "framing"),
                      Rec(str(n + 2), "Roofer", <<str(n + 1)>>, "rough_in") >>
        m == IF has_electrical THEN n + 4 ELSE n + 3
        electrical == IF has_electrical
                      THEN << Rec(str(n + 3), "Electrician", <<str(n)>>, "rough_in") >>
                      ELSE <<>>
        electrical_dependencies == IF has_electrical
                                   THEN <<str(n + 2), str(n + 3)>>
                                   ELSE <<str(n + 2)>>
        finishing == << Rec(str(m), "Carpenter", electrical_dependencies, "finishing"),
                        Rec(str(m + 1), "Carpenter", <<str(m)>>, "finishing"),
                        Rec(str(m + 2), "Painter", <<str(m + 1)>>, "finishing"),
                        Rec(str(m + 3), "Carpenter", <<str(m + 2)>>, "final_inspection") >>
    IN planning \o foundation \o framing \o electrical \o finishing

\* _create_shed_construction_tasks: task_id counts the tasks appended so far;
\* n is its value at the framing task, m at the siding task
create_shed_construction_tasks(has_foundation, has_electrical) ==
    LET n == IF has_foundation THEN 3 ELSE 2
        foundation_task_id == IF has_foundation THEN str(2) ELSE "1"
        planning == << Rec(str(1), "Architect", <<>>, "planning") >>
        foundation == IF has_foundation
                      THEN << Rec(str(2), "Mason", <<str(2 - 1)>>, "foundation") >>
                      ELSE <<>>
        framing == << Rec(str(n), "Carpenter", <<foundation_task_id>>, "framing"),
                      Rec(str(n + 1), "Carpenter", <<str(n)>>, "framing"),
                      Rec(str(n + 2), "Roofer", <<str(n + 1)>>, "rough_in") >>
        m == IF has_electrical THEN n + 4 ELSE n + 3
        electrical == IF has_electrical
                      THEN << Rec(str(n + 3), "Electrician", <<str(n)>>, "rough_in") >>
                      ELSE <<>>
        electrical_dependencies == IF has_electrical
                                   THEN <<str(n + 2), str(n + 3)>>
                                   ELSE <<str(n + 2)>>
        finishing == << Rec(str(m), "Carpenter", electrical_dependencies, "finishing"),
                        Rec(str(m + 1), "Carpenter", <<str(m)>>, "finishing"),
                        Rec(str(m + 2), "Painter", <<str(m + 1)>>, "finishing"),
                        Rec(str(m + 3), "Carpenter", <<str(m + 2)>>, "final_inspection") >>
    IN planning \o foundation \o framing \o electrical \o finishing

\* the task list create_project_tasks builds for a project type
template_tasks(project_type, has_foundation, has_electrical) ==
    CASE project_type = "kitchen_remodel" -> create_kitchen_remodel_tasks
      [] project_type = "bathroom_remodel" -> create_bathroom_remodel_tasks
      [] project_type = "new_construction" -> create_new_construction_tasks
      [] project_type = "addition" -> create_addition_tasks
      [] project_type = "shed_construction" ->
           create_shed_construction_tasks(has_foundation, has_electrical)
      [] OTHER -> <<>>

\* _validate_project_requirements: description_ok stands for the result of
\* the tests on the description text that the project type asks for
validate_project_requirements(project_type, description_ok) ==
    project_type \in SUPPORTED_PROJECT_TYPES => description_ok

\* the planning agent's answer: no answer within the 120 seconds, or an
\* answer that carries a task list (empty when nothing usable is found in
\* the stored plan, the tool results and the text)
PlannerTimeout == [kind |-> "timeout", tasks |-> <<>>]

PlannerAnswer(task_list) == [kind |-> "answer", tasks |-> task_list]

\* _parse_planning_result: the first non-empty "tasks" list, or ValueError
parse_planning_result(result) ==
    IF result.tasks # <<>>
    THEN [ok |-> TRUE, tasks |-> result.tasks]
    ELSE [ok |-> FALSE, tasks |-> <<>>]

RecordIds(records) == {records[i].task_id : i \in DOMAIN records}

\* the ids the records of this id depend on
RecordDeps(records, id) ==
    UNION {Range(records[i].dependencies) :
              i \in {j \in DOMAIN records : records[j].task_id = id}}

\* depth-first traversal: id is reached again while it is on the stack
RECURSIVE back_edge(_, _, _)
back_edge(records, id, stack) ==
    \/ id \in stack
    \/ \E d \in RecordDeps(records, id) : back_edge(records, d, stack \cup {id})

has_cycle(records) == \E id \in RecordIds(records) : back_edge(records, id, {})

\* the reasons for which the validator rejects a list of raw records
validate_plan(records) ==
    (IF \E i, j \in DOMAIN records : i # j /\ records[i].task_id = records[j].task_id
     THEN {"DuplicateId"} ELSE {})
    \cup (IF \E i \in DOMAIN records :
                ~(Range(records[i].dependencies) \subseteq RecordIds(records))
          THEN {"UnknownDependency"} ELSE {})
    \cup (IF \E i \in DOMAIN records : records[i].agent = None
          THEN {"MissingRequiredField"} ELSE {})
    \cup (IF has_cycle(records) THEN {"CycleDetected"} ELSE {})

\* outcome of a planning or validation step: the task manager afterwards, the
\* ids of the Task objects created and the reasons of the rejection (none
\* when the plan is accepted)
Ingested(tm, created, errors) ==
    [tm |-> tm, created |-> created, ok |-> errors = {}, errors |-> errors]

\* TaskManager.create_tasks_from_plan: all or nothing; an accepted plan
\* becomes the task graph, one Task per record
create_tasks_from_plan(tm, task_plan) ==
    IF validate_plan(task_plan) # {}
    THEN Ingested(tm, <<>>, validate_plan(task_plan))
    ELSE Ingested(add_all(clear(tm), task_plan),
                  [i \in DOMAIN task_plan |-> task_plan[i].task_id], {})

\* a dynamic path that adds the tasks of a plan the validator rejected
create_dynamic_project_plan_lenient(tm, result) ==
    IF result.kind = "timeout"
    THEN Ingested(tm, <<>>, {"PlanningTimeout"})
    ELSE IF ~parse_planning_result(result).ok
    THEN Ingested(tm, <<>>, {"ValueError"})
    ELSE LET c == create_tasks_from_plan(tm, parse_planning_result(result).tasks)
         IN IF c.ok THEN c
            ELSE Ingested(add_all(tm, parse_planning_result(result).tasks),
                          <<>>, c.errors)

\* _create_dynamic_project_plan: a timeout of the planning agent, a result
\* without a task list and a rejected plan are raised to the caller
create_dynamic_project_plan(tm, result) ==
    IF result.kind = "timeout"
    THEN Ingested(tm, <<>>, {"PlanningTimeout"})
    ELSE IF ~parse_planning_result(result).ok
    THEN Ingested(tm, <<>>, {"ValueError"})
    ELSE create_tasks_from_plan(tm, parse_planning_result(result).tasks)

Request(project_type, description_ok, use_dynamic_planning, has_foundation, has_electrical) ==
    [project_type |-> project_type, description_ok |-> description_ok,
     use_dynamic_planning |-> use_dynamic_planning,
     has_foundation |-> has_foundation, has_electrical |-> has_electrical]

\* outcome of start_project: the agent's state, its current_project, the ids
\* of the tasks created and the reasons of the rejection
Started(g, project, created, errors) ==
    [g |-> g, current_project |-> project, created |-> created,
     ok |-> errors = {}, errors |-> errors]

start_project(g, project, request, result) ==
    IF /\ ~request.use_dynamic_planning
       /\ request.project_type # "custom_project"
       /\ ~validate_project_requirements(request.project_type,
                                         request.description_ok)
    THEN Started(g, project, <<>>, {"MissingRequiredInformation"})
    ELSE LET record == [type |-> request.project_type, status |-> "planning"]
             is_supported_type == request.project_type \in SUPPORTED_PROJECT_TYPES
             should_use_dynamic == request.use_dynamic_planning \/ ~is_supported_type
         IN IF should_use_dynamic
            THEN LET c == create_dynamic_project_plan(g.tm, result)
                 IN IF c.ok
                    THEN Started([g EXCEPT !.tm = c.tm,
                                           !.project_phase = "planning"],
                                 record, c.created, {})
                    ELSE Started([g EXCEPT !.tm = c.tm], record, <<>>, c.errors)
            ELSE LET tasks_created == template_tasks(request.project_type,
                                                     request.has_foundation,
                                                     request.has_electrical)
                 IN Started([g EXCEPT
                               !.tm = create_project_tasks(
                                         g.tm,
                                         [type |-> request.project_type,
                                          records |-> tasks_created]),
                               !.project_phase = "planning"],
                            record,
                            [i \in DOMAIN tasks_created |-> tasks_created[i].task_id],
                            {})

\* a start_project request with its answer; the tasks whose Task object is
\* replaced have not been dispatched
StartProjectRequest(request) ==
    LET s == start_project(TheG, current_project, request, planner_result)
        ids == Range(s.created)
    IN /\ starts' = starts + 1
       /\ current_project' = s.current_project
       /\ tasks' = s.g.tm.tasks
       /\ order' = s.g.tm.order
       /\ completed_tasks' = s.g.tm.completed
       /\ failed_tasks' = s.g.tm.failed
       /\ project_phase' = s.g.project_phase
       /\ dispatched' = [k \in (DOMAIN dispatched \cap DOMAIN s.g.tm.tasks) \ ids
                            |-> dispatched[k]]
       /\ returns' = <<>>
       /\ response' = [Response("start_project",
                                IF s.ok THEN "success" ELSE "error", NoReport)
                          EXCEPT !.errors = s.errors]
       /\ worker_answer' = NoAnswer
       /\ UNCHANGED <<last_error, req, ops>>
       /\ UNCHANGED <<guard_vars, planning_vars, telemetry_vars>>

\* Raw plans of the planning agent: up to MaxPlan records over three ids.  A
\* record has no dependency, or depends on the next or on the previous id
\* (the ids taken in a circle); one record depends on the unknown id "9" and
\* one lacks its agent.
RawIds == {"1", "2", "3"}

NextId(id) == CASE id = "1" -> "2" [] id = "2" -> "3" [] OTHER -> "1"

PreviousId(id) == CASE id = "1" -> "3" [] id = "2" -> "1" [] OTHER -> "2"

RawRecords ==
    {Rec(id, "Carpenter", deps, "framing") :
        id \in RawIds, deps \in {<<>>}}
    \cup {Rec(id, "Carpenter", <<NextId(id)>>, "framing") : id \in RawIds}
    \cup {Rec(id, "Carpenter", <<PreviousId(id)>>, "framing") : id \in RawIds}
    \cup {Rec("3", "Carpenter", <<"9">>, "framing"),
          Rec("1", None, <<>>, "framing")}

RawPlans == UNION {[1..n -> RawRecords] : n \in 0..MaxPlan}

PlannerResults == {PlannerTimeout} \cup {PlannerAnswer(p) : p \in RawPlans}

DynamicRequests ==
    {Request("dog_house", TRUE, FALSE, TRUE, FALSE),
     Request("kitchen_remodel", FALSE, TRUE, TRUE, FALSE)}

\* A project of the chain plan is started and the planning agent is about to
\* give any of the answers.
InitIngest ==
    /\ LET tm == create_project_tasks(EmptyTM, CHOOSE plan \in Plans : plan.type = "chain")
       IN /\ tasks = tm.tasks
          /\ order = tm.order
          /\ completed_tasks = tm.completed
          /\ failed_tasks = tm.failed
    /\ current_project = [type |-> "chain", status |-> "planning"]
    /\ project_phase = "planning"
    /\ last_error = NoError
    /\ req = [r \in Slots |-> IdleFrame]
    /\ returns = <<>>
    /\ response = Response("start_project", "success", NoReport)
    /\ worker_answer = NoAnswer
    /\ dispatched = <<>>
    /\ starts = 1
    /\ ops = 0
    /\ tracker = NoTracker
    /\ signal = <<>>
    /\ tool_calls = <<>>
    /\ planner_result \in PlannerResults
    /\ events = <<>>
    /\ subscribers = <<>>

NextIngest ==
    \/ \E request \in DynamicRequests :
          starts < MaxStarts + 1 /\ StartProjectRequest(request)
    \/ Reset

SpecIngest == InitIngest /\ [][NextIngest]_vars

\* The built-in templates: projects of every supported type are started, with
\* and without the information the type asks for, and run phase by phase; a
\* project of another type goes through the planning agent, which answers
\* with a plan the validator accepts or with one it rejects.
SamplePlannerResults ==
    {PlannerAnswer(<< Rec("1", "Carpenter", <<>>, "framing"),
                      Rec("2", "Carpenter", <<"1">>, "framing") >>),
     PlannerAnswer(<< Rec("3", "Carpenter", <<"9">>, "framing") >>)}

InitTemplates ==
    /\ tasks = <<>>
    /\ order = <<>>
    /\ completed_tasks = {}
    /\ failed_tasks = {}
    /\ project_phase = "idle"
    /\ current_project = NoProject
    /\ last_error = NoError
    /\ req = [r \in Slots |-> IdleFrame]
    /\ returns = <<>>
    /\ response = NoResponse
    /\ worker_answer = NoAnswer
    /\ dispatched = <<>>
    /\ starts = 0
    /\ ops = 0
    /\ tracker = NoTracker
    /\ signal = <<>>
    /\ tool_calls = <<>>
    /\ planner_result \in SamplePlannerResults
    /\ events = <<>>
    /\ subscribers = <<>>

TemplateRequests ==
    {Request(type, ok, FALSE, TRUE, FALSE) :
        type \in SUPPORTED_PROJECT_TYPES \ {"shed_construction"}, ok \in BOOLEAN}
    \cup {Request("shed_construction", ok, FALSE, f, e) :
             ok \in BOOLEAN, f \in BOOLEAN, e \in BOOLEAN}
    \cup {Request("dog_house", TRUE, FALSE, TRUE, FALSE)}

NextTemplates ==
    \/ \E request \in TemplateRequests :
          Quiescent /\ starts < MaxStarts + 1 /\ StartProjectRequest(request)
    \/ Quiescent /\ Reset
    \/ Quiescent /\ ExecuteNextPhase("r1")
    \/ \E outcome \in WorkerOutcomes : WorkerReturns("r1", outcome)

SpecTemplates == InitTemplates /\ [][NextTemplates]_vars

\* A template project run by POST /api/projects/execute-all with workers
\* that all succeed
NextTemplateRun ==
    \/ \E request \in TemplateRequests :
          Quiescent /\ starts < MaxStarts /\ StartProjectRequest(request)
    \/ Quiescent /\ ExecuteEntireProject("r1")
    \/ WorkerReturns("r1", "success")
    \/ LoopWakes("r1")

SpecTemplateRun == InitTemplates /\ [][NextTemplateRun]_vars

-----------------------------------------------------------------------------
(* Plans of the planning agent whose phases and dependencies are not lined  *)
(* up: a later phase that waits for nothing, a group in which one task      *)
(* fails, a dependency against the order of phases, and a plan in phase     *)
(* order.                                                                   *)

GatePlans ==
    { [type |-> "free_rough_in",
       records |-> << Rec("1", "Carpenter", <<>>, "framing"),
                      Rec("2", "Electrician", <<>>, "rough_in"),
                      Rec("3", "Painter", <<"1">>, "finishing") >>],
      [type |-> "failed_branch",
       records |-> << Rec("1", "Carpenter", <<>>, "framing"),
                      Rec("2", "Permitting", <<>>, "framing"),
                      Rec("3", "Carpenter", <<"2">>, "framing"),
                      Rec("4", "Plumber", <<"1">>, "rough_in") >>],
      [type |-> "rough_in_first",
       records |-> << Rec("1", "Plumber", <<>>, "rough_in"),
                      Rec("2", "Carpenter", <<"1">>, "framing"),
                      Rec("3", "Painter", <<"2">>, "finishing") >>],
      [type |-> "in_order",
       records |-> << Rec("1", "Architect", <<>>, "planning"),
                      Rec("2", "Carpenter", <<"1">>, "framing"),
                      Rec("3", "Plumber", <<"2">>, "rough_in"),
                      Rec("4", "Painter", <<"3">>, "finishing") >>] }

InitGate ==
    /\ \E plan \in GatePlans :
          /\ tasks = create_project_tasks(EmptyTM, plan).tasks
          /\ order = create_project_tasks(EmptyTM, plan).order
          /\ current_project = [type |-> plan.type, status |-> "planning"]
    /\ completed_tasks = {}
    /\ failed_tasks = {}
    /\ project_phase = "planning"
    /\ last_error = NoError
    /\ req = [r \in Slots |-> IdleFrame]
    /\ returns = <<>>
    /\ response = Response("start_project", "success", NoReport)
    /\ worker_answer = NoAnswer
    /\ dispatched = <<>>
    /\ starts = 1
    /\ ops = 0
    /\ tracker = NoTracker
    /\ signal = <<>>
    /\ tool_calls = <<>>
    /\ planner_result = NoPlan
    /\ events = <<>>
    /\ subscribers = <<>>

NextGate ==
    \/ Quiescent /\ ExecuteNextPhase("r1")
    \/ Quiescent /\ ExecuteEntireProject("r1")
    \/ \E outcome \in WorkerOutcomes : WorkerReturns("r1", outcome)
    \/ LoopWakes("r1")

SpecGate == InitGate /\ [][NextGate]_vars

-----------------------------------------------------------------------------
(* Telemetry: the ActivityLogger (backend/utils/activity_logger.py) and the *)
(* calls execute_task makes to it.  A listener of the event stream owns a   *)
(* bounded queue; backlog counts the events that wait in it already.        *)

MaxSubscribers == 2

queue_maxsize == 100

max_events == 500

Event(type, agent, task_id) == [type |-> type, agent |-> agent, task_id |-> task_id]

Queue(backlog, broken) == [backlog |-> backlog, items |-> <<>>, broken |-> broken]

AL(ev, subs) == [events |-> ev, subscribers |-> subs]

TheAL == AL(events, subscribers)

\* asyncio.Queue.put_nowait: QueueFull when maxsize items wait, any other
\* exception for a queue that cannot take items any more
put_nowait(queue, event) ==
    IF queue.broken
    THEN [queue |-> queue, raises |-> "Exception"]
    ELSE IF queue.backlog + Len(queue.items) >= queue_maxsize
    THEN [queue |-> queue, raises |-> "QueueFull"]
    ELSE [queue |-> [queue EXCEPT !.items = Append(@, event)], raises |-> None]

\* deque(maxlen=max_events).append
deque_append(d, x) ==
    IF Len(d) >= max_events THEN Append(Tail(d), x) ELSE Append(d, x)

\* the loop of _emit over the subscribers: a full queue is skipped, a queue
\* that raises anything else is removed
RECURSIVE deliver(_, _)
deliver(queues, event) ==
    IF queues = <<>> THEN <<>>
    ELSE LET p == put_nowait(Head(queues), event)
         IN (IF p.raises = "Exception" THEN <<>> ELSE <<p.queue>>)
            \o deliver(Tail(queues), event)

\* the same loop without "except asyncio.QueueFull": it ends at a full queue
RECURSIVE deliver_until_full(_, _)
deliver_until_full(queues, event) ==
    IF queues = <<>> THEN [queues |-> <<>>, raised |-> FALSE]
    ELSE LET p == put_nowait(Head(queues), event)
             rest == deliver_until_full(Tail(queues), event)
         IN IF p.raises = "QueueFull"
            THEN [queues |-> queues, raised |-> TRUE]
            ELSE [queues |-> (IF p.raises = "Exception" THEN <<>> ELSE <<p.queue>>)
                             \o rest.queues,
                  raised |-> rest.raised]

\* an _emit that lets QueueFull escape to the caller
emit_unguarded(al, event) ==
    [al |-> AL(deque_append(al.events, event),
               deliver_until_full(al.subscribers, event).queues),
     raised |-> deliver_until_full(al.subscribers, event).raised]

\* ActivityLogger._emit: the event is recorded and offered to every
\* subscriber; no exception leaves it
emit(al, event) ==
    [al |-> AL(deque_append(al.events, event), deliver(al.subscribers, event)),
     raised |-> FALSE]

log_task_start(al, agent, task_id) == emit(al, Event("task_start", agent, task_id))

log_task_complete(al, agent, task_id) == emit(al, Event("task_complete", agent, task_id))

log_task_failed(al, agent, task_id) == emit(al, Event("task_failed", agent, task_id))

log_error(al, agent) == emit(al, Event("error", agent, None))

\* outcome of a stretch of execute_task: raised when an exception leaves it
Logged(tm, al, suspended, raised, ret) ==
    [tm |-> tm, al |-> al, suspended |-> suspended, raised |-> raised, ret |-> ret]

\* the handler "except Exception" of execute_task
execute_task_except(tm, al, task) ==
    LET l == log_task_failed(al, task.agent, task.task_id)
    IN IF l.raised
       THEN Logged(tm, l.al, FALSE, TRUE, Ret(task.task_id, None, None))
       ELSE Logged(mark_failed(tm, task.task_id, "WorkerError"), l.al, FALSE, FALSE,
                   Ret(task.task_id, "error", "WorkerError"))

\* execute_task from its entry to the await of the worker, with its calls of
\* the activity logger.  The tasks of Plans need no materials and no permit.
execute_task_entry_logged(tm, al, task) ==
    IF task.agent \notin agents
    THEN LET l == log_error(al, task.agent)
         IN IF l.raised
            THEN Logged(tm, l.al, FALSE, TRUE, Ret(task.task_id, None, None))
            ELSE Logged(execute_task_entry(tm, task).tm, l.al, FALSE, FALSE,
                        execute_task_entry(tm, task).ret)
    ELSE LET l == log_task_start(al, task.agent, task.task_id)
         IN IF l.raised
            THEN Logged(mark_in_progress(tm, task.task_id), l.al, FALSE, TRUE,
                        Ret(task.task_id, None, None))
            ELSE Logged(execute_task_entry(tm, task).tm, l.al, TRUE, FALSE,
                        execute_task_entry(tm, task).ret)

\* execute_task from the worker's answer to its return, with its calls of
\* the activity logger: each logger call comes before the mark_* it reports
execute_task_resume_logged(tm, al, task, outcome) ==
    CASE outcome = "success" ->
           LET l == log_task_complete(al, task.agent, task.task_id)
           IN IF l.raised
              THEN execute_task_except(tm, l.al, task)
              ELSE Logged(execute_task_resume(tm, task, outcome).tm, l.al, FALSE,
                          FALSE, execute_task_resume(tm, task, outcome).ret)
      [] outcome = "timeout" ->
           LET l == log_task_failed(al, task.agent, task.task_id)
           IN IF l.raised
              THEN execute_task_except(tm, l.al, task)
              ELSE Logged(execute_task_resume(tm, task, outcome).tm, l.al, FALSE,
                          FALSE, execute_task_resume(tm, task, outcome).ret)
      [] OTHER -> execute_task_except(tm, al, task)

\* the loop of execute_next_phase over the phase group; an exception that
\* leaves execute_task ends the loop
RECURSIVE run_tasks_logged(_, _, _, _, _)
run_tasks_logged(tm, al, disp, queue, rets) ==
    IF queue = <<>>
    THEN [tm |-> tm, al |-> al, dispatched |-> disp, cur |-> NoTask,
          queue |-> <<>>, returns |-> rets, raised |-> FALSE]
    ELSE LET e == execute_task_entry_logged(tm, al, Head(queue))
             d == CountUp(disp, Head(queue).task_id)
         IN IF e.raised
            THEN [tm |-> e.tm, al |-> e.al, dispatched |-> d, cur |-> NoTask,
                  queue |-> <<>>, returns |-> rets, raised |-> TRUE]
            ELSE IF e.suspended
            THEN [tm |-> e.tm, al |-> e.al, dispatched |-> d, cur |-> Head(queue),
                  queue |-> Tail(queue), returns |-> rets, raised |-> FALSE]
            ELSE run_tasks_logged(e.tm, e.al, d, Tail(queue), Append(rets, e.ret))

\* the end of a stretch of the request POST /api/projects/execute-next-phase:
\* an exception that leaves execute_next_phase is answered with HTTP 500
after_run_logged(g, run) ==
    IF run.raised
    THEN [stretch |-> Stretch([g EXCEPT !.tm = run.tm, !.dispatched = run.dispatched],
                              IdleFrame, run.returns,
                              Response("execute_next_phase", "exception", NoReport)),
          al |-> run.al]
    ELSE LET s == after_run(g, run)
         IN [stretch |-> IF s.done
                         THEN Stretch(s.g, IdleFrame, s.returns,
                                      Response("execute_next_phase", s.status,
                                               NoReport))
                         ELSE Stretch(s.g, Awaiting("phase", s, 0), s.returns,
                                      NoResponse),
             al |-> run.al]

execute_next_phase_logged(g, al) ==
    IF g.project_phase = "idle" \/ get_next_phase_tasks(g.tm).ready = <<>>
    THEN [stretch |-> execute_next_phase(g), al |-> al]
    ELSE LET n == get_next_phase_tasks(g.tm)
         IN after_run_logged(g, run_tasks_logged(n.tm, al, g.dispatched,
                                                 TaskObjects(n.tm, n.ready), <<>>))

execute_next_phase_resume_logged(g, al, frame, outcome) ==
    LET r == execute_task_resume_logged(g.tm, al, frame.cur, outcome)
    IN IF r.raised
       THEN after_run_logged(g, [tm |-> r.tm, al |-> r.al,
                                 dispatched |-> g.dispatched, cur |-> NoTask,
                                 queue |-> <<>>, returns |-> <<>>, raised |-> TRUE])
       ELSE after_run_logged(g, run_tasks_logged(r.tm, r.al, g.dispatched,
                                                 frame.queue, <<r.ret>>))

\* the states a subscriber's queue can be in when an event is emitted: empty,
\* one place left, full, or unable to take an item
SubscriberQueues ==
    {Queue(backlog, broken) : backlog \in {0, queue_maxsize - 1, queue_maxsize},
                              broken \in BOOLEAN}

InitTelemetry ==
    /\ \E plan \in Plans :
          /\ tasks = create_project_tasks(EmptyTM, plan).tasks
          /\ order = create_project_tasks(EmptyTM, plan).order
          /\ current_project = [type |-> plan.type, status |-> "planning"]
    /\ completed_tasks = {}
    /\ failed_tasks = {}
    /\ project_phase = "planning"
    /\ last_error = NoError
    /\ req = [r \in Slots |-> IdleFrame]
    /\ returns = <<>>
    /\ response = Response("start_project", "success", NoReport)
    /\ worker_answer = NoAnswer
    /\ dispatched = <<>>
    /\ starts = 1
    /\ ops = 0
    /\ tracker = NoTracker
    /\ signal = <<>>
    /\ tool_calls = <<>>
    /\ planner_result = NoPlan
    /\ events = <<>>
    /\ subscribers \in UNION {[1..n -> SubscriberQueues] : n \in 0..MaxSubscribers}

\* GET /api/activity/stream: a listener subscribes with an empty queue
StreamActivity ==
    /\ Len(subscribers) < MaxSubscribers
    /\ subscribers' = Append(subscribers, Queue(0, FALSE))
    /\ UNCHANGED <<tasks, order, completed_tasks, failed_tasks, project_phase,
                   current_project, last_error, req, returns, response,
                   worker_answer, dispatched, starts, ops, events>>
    /\ UNCHANGED <<guard_vars, planning_vars>>

ExecuteNextPhaseLogged(r) ==
    /\ req[r].kind = "idle"
    /\ LET x == execute_next_phase_logged(TheG, TheAL)
       IN /\ Install(r, x.stretch)
          /\ events' = x.al.events
          /\ subscribers' = x.al.subscribers
    /\ worker_answer' = NoAnswer
    /\ UNCHANGED <<current_project, starts, ops>>
    /\ UNCHANGED <<guard_vars, planning_vars>>

WorkerReturnsLogged(r, outcome) ==
    /\ req[r].pc = "await"
    /\ LET x == execute_next_phase_resume_logged(TheG, TheAL, req[r], outcome)
       IN /\ Install(r, x.stretch)
          /\ events' = x.al.events
          /\ subscribers' = x.al.subscribers
    /\ worker_answer' = [task_id |-> req[r].cur.task_id, outcome |-> outcome]
    /\ UNCHANGED <<current_project, starts, ops>>
    /\ UNCHANGED <<guard_vars, planning_vars>>

NextTelemetry ==
    \/ StreamActivity
    \/ Quiescent /\ ExecuteNextPhaseLogged("r1")
    \/ \E outcome \in WorkerOutcomes : WorkerReturnsLogged("r1", outcome)

SpecTelemetry == InitTelemetry /\ [][NextTelemetry]_vars

-----------------------------------------------------------------------------
(* Properties *)

Ids == DOMAIN tasks

Status(id) == tasks[id].status

Deps(id) == Range(tasks[id].dependencies)

\* the task of this id is a new Task object after the step
Replaced(id) == starts' # starts

\* C1: whenever a task is dispatched (its status becomes in_progress), every
\* task id in its dependencies is the id of a task of the graph whose status
\* is completed.
C1_DispatchOnlyAfterDependencies ==
    [][\A id \in DOMAIN tasks' :
          (/\ tasks'[id].status = IN_PROGRESS
           /\ (id \notin Ids \/ Status(id) # IN_PROGRESS))
          => \A d \in Range(tasks'[id].dependencies) :
                d \in DOMAIN tasks' /\ tasks'[d].status = COMPLETED]_vars

\* C2: a task id is in completed_tasks iff the task's status is completed, in
\* failed_tasks iff its status is failed, and no id is in both sets.
C2_SetsMatchStatus ==
    /\ \A id \in Ids : (id \in completed_tasks) <=> (Status(id) = COMPLETED)
    /\ \A id \in Ids : (id \in failed_tasks) <=> (Status(id) = FAILED)
    /\ completed_tasks \cap failed_tasks = {}

\* C3: get_ready_tasks promotes a pending task to ready iff every one of its
\* dependency ids is in completed_tasks (naive check: the set of its
\* dependencies is a subset of the completed set), returns exactly the tasks
\* it promoted and leaves every other task as it was.
C3_ReadyIffDependenciesCompleted ==
    [][\A id \in Ids :
          LET promoted == Status(id) = PENDING /\ tasks'[id].status = READY
              naive == Status(id) = PENDING /\ Deps(id) \subseteq completed_tasks
          IN /\ promoted <=> naive
             /\ (id \in Range(returns')) <=> promoted
             /\ ~promoted => tasks'[id] = tasks[id]
             /\ promoted => tasks'[id] = [tasks[id] EXCEPT !.status = READY]]_vars

C3_Witness ==
    /\ response.op = "get_ready_tasks"
    /\ \E a, b \in Ids :
          /\ Status(a) = READY /\ a \in Range(returns)
          /\ tasks[a].dependencies # <<>>
          /\ Status(b) = PENDING
          /\ Deps(b) \cap completed_tasks # {}
          /\ ~(Deps(b) \subseteq completed_tasks)

\* a scheduling pass can run in this state: no request awaits a worker
PassCanRun == \A r \in Slots : req[r].pc # "await"

ReadyOfPhase(tm, phase) ==
    {id \in DOMAIN tm.tasks : tm.tasks[id].status = READY /\ tm.tasks[id].phase = phase}

\* C4: get_next_phase_tasks returns exactly the ready tasks (all tasks whose
\* status is ready after the call, not only those the call promoted) of the
\* first phase of PHASE_ORDER that has a ready task, and the ready tasks of
\* unrecognized phases only when no recognized phase has a ready task.
C4_NextPhaseFromAllReady ==
    PassCanRun =>
        LET n == get_next_phase_tasks(TheTM)
            all_ready == {id \in DOMAIN n.tm.tasks : n.tm.tasks[id].status = READY}
            nonempty == {i \in DOMAIN PHASE_ORDER : ReadyOfPhase(n.tm, PHASE_ORDER[i]) # {}}
            first == CHOOSE i \in nonempty : \A j \in nonempty : i <= j
        IN Range(n.ready) = IF nonempty # {}
                            THEN ReadyOfPhase(n.tm, PHASE_ORDER[first])
                            ELSE all_ready

RunReported == response.op = "execute_entire_project" /\ response.status # "error"

\* C5: the run loop reports the overall status completed only when every task
\* of the graph has status completed and none was failed or skipped; with a
\* failed or skipped task the overall status is partial.
C5_CompletedOnlyIfAllCompleted ==
    (RunReported /\ response.status = "completed")
    => \A id \in Ids : Status(id) = COMPLETED /\ tasks[id].result.kind = "completed"

\* what the run loop's scheduling pass would find in this state
NoTaskPass ==
    /\ project_phase # "idle"
    /\ get_next_phase_tasks(TheTM).ready = <<>>
    /\ get_project_status(TheTM).pending > 0
    /\ get_project_status(TheTM).in_progress = 0

\* request r runs a pass of the run loop in this step
RunLoopPass(r) ==
    \/ /\ req[r].pc = "sleep"
       /\ req[r].iteration < max_iterations
       /\ req'[r] # req[r]
    \/ /\ req[r].kind = "idle"
       /\ req'[r].kind = "project" \/ response'.op = "execute_entire_project"

PendingIds(t) == {id \in DOMAIN t : t[id].status = PENDING}

\* C6: when a scheduling pass of the run loop returns no task while pending > 0
\* and in_progress = 0, the run stops in that pass with a report (it does not
\* raise), the report's status is partial, not completed, and its stuck-state
\* description lists exactly the tasks that are still pending.
C6_DeadlockStopsWithReport ==
    [][\A r \in Slots :
          (RunLoopPass(r) /\ NoTaskPass)
          => /\ req'[r] = IdleFrame
             /\ response'.op = "execute_entire_project"
             /\ response'.status = "partial"
             /\ response'.report.status = "partial"
             /\ response'.report.error_details.type = "stuck_state"
             /\ Range(response'.report.error_details.blocked_tasks) = PendingIds(tasks')
             /\ PendingIds(tasks') = PendingIds(tasks)
             /\ last_error' = response'.report.error_details]_vars

C6_Witness ==
    /\ RunReported
    /\ response.status = "partial"
    /\ response.report.error_details.type = "stuck_state"
    /\ Len(response.report.error_details.blocked_tasks) = 2
    /\ \E id \in Ids : Status(id) = FAILED /\ tasks[id].result.info = "Timeout"
    /\ \E id \in Ids : Status(id) = PENDING /\ Deps(id) \cap failed_tasks = {}

DeadlockReported ==
    /\ RunReported
    /\ response.report.final_status.pending > 0
    /\ response.report.final_status.in_progress = 0

RECURSIVE Ancestors(_, _)
Ancestors(S, n) ==
    IF n = 0 THEN S
    ELSE Ancestors(S \cup UNION {Deps(id) : id \in S \cap Ids}, n - 1)

\* C7: a deadlock is reported only when every pending task has a direct or
\* transitive dependency that is failed or absent from the graph, never while
\* a dependency of a pending task is ready and not yet dispatched.
C7_DeadlockOnlyWhenBlocked ==
    DeadlockReported
    => \A id \in Ids :
          Status(id) = PENDING
          => /\ \E d \in Ancestors(Deps(id), Cardinality(Ids)) :
                   d \notin Ids \/ Status(d) = FAILED
             /\ \A d \in Deps(id) : d \in Ids => Status(d) # READY

\* C8: a task whose agent is not registered never becomes in_progress and no
\* worker is awaited for it; execute_task returns for it with reason
\* CapabilityNotFound and the task failed with that reason; the single-task
\* plan of this kind run to completion reports pending = 0 and failed = 1 with
\* a reason that is not Timeout.
C8_CapabilityNotFound ==
    /\ \A id \in Ids : tasks[id].agent \notin agents => Status(id) # IN_PROGRESS
    /\ \A r \in Slots : req[r].pc = "await" => req[r].cur.agent \in agents
    /\ \A i \in DOMAIN returns :
          LET id == returns[i].task_id
          IN /\ tasks[id].agent \notin agents
                => returns[i].reason = "CapabilityNotFound"
             /\ returns[i].reason = "CapabilityNotFound"
                => /\ tasks[id].agent \notin agents
                   /\ Status(id) = FAILED
                   /\ tasks[id].result = [kind |-> "error", info |-> "CapabilityNotFound"]
                   /\ id \in failed_tasks
    /\ (RunReported /\ current_project.type = "no_worker" /\ starts = 1 /\ ops = 0)
       => /\ response.report.final_status.pending = 0
          /\ response.report.final_status.failed = 1
          /\ response.report.final_status.in_progress = 0
          /\ tasks["1"].result.info = "CapabilityNotFound"
          /\ tasks["1"].result.info # "Timeout"

C8_Witness ==
    /\ RunReported
    /\ current_project.type = "no_worker" /\ starts = 1 /\ ops = 0
    /\ Ids = {"1"}
    /\ Status("1") = FAILED
    /\ response.report.final_status.failed = 1

\* C9: a request that awaits a worker for a task has that task in_progress;
\* when the worker answers, execute_task returns in the same step with the
\* task in one terminal status: completed with the result stored on success,
\* failed with reason Timeout when the deadline expired, failed with reason
\* WorkerError when the worker reported an error.  A failed task becomes
\* completed in one step only by skip_task, never by a late worker result.
C9_OneTerminalStatusPerDispatch ==
    [][/\ \A r \in Slots :
            req[r].pc = "await"
            => LET id == req[r].cur.task_id
               IN /\ id \in Ids /\ Status(id) = IN_PROGRESS
                  /\ req'[r] # req[r]
                     => /\ worker_answer' = [task_id |-> id,
                                             outcome |-> worker_answer'.outcome]
                        /\ returns' # <<>> /\ returns'[1].task_id = id
                        /\ worker_answer'.outcome = "success"
                           => /\ tasks'[id].status = COMPLETED
                              /\ tasks'[id].result.kind = "completed"
                              /\ id \in completed_tasks'
                              /\ returns'[1].status = "completed"
                        /\ worker_answer'.outcome = "timeout"
                           => /\ tasks'[id].status = FAILED
                              /\ tasks'[id].result = [kind |-> "error", info |-> "Timeout"]
                              /\ id \in failed_tasks'
                              /\ returns'[1].reason = "Timeout"
                        /\ worker_answer'.outcome = "error"
                           => /\ tasks'[id].status = FAILED
                              /\ tasks'[id].result = [kind |-> "error", info |-> "WorkerError"]
                              /\ id \in failed_tasks'
                              /\ returns'[1].reason = "WorkerError"
                        /\ worker_answer'.outcome \in WorkerOutcomes
       /\ \A id \in Ids :
            (~Replaced(id) /\ id \in DOMAIN tasks' /\ Status(id) = FAILED
             /\ tasks'[id].status = COMPLETED)
            => tasks'[id].result.kind = "skipped"]_vars

C9_Witness ==
    /\ worker_answer.outcome = "timeout"
    /\ worker_answer.task_id \in Ids
    /\ Status(worker_answer.task_id) = FAILED
    /\ tasks[worker_answer.task_id].result.info = "Timeout"
    /\ \E r \in Slots : req[r].pc = "await"

\* C10: the run loop hands no Task to execute_task more than once: a task that
\* failed (by timeout or otherwise), completed or was already promoted to ready
\* is not dispatched again by a later pass; only retry_task dispatches again.
C10_NoAutomaticRetry ==
    \A id \in DOMAIN dispatched : dispatched[id] <= 1

C10_Witness ==
    /\ RunReported
    /\ response.report.total_iterations >= 2
    /\ \E id \in Ids :
          /\ Status(id) = FAILED
          /\ tasks[id].result.info = "Timeout"
          /\ id \in DOMAIN dispatched /\ dispatched[id] = 1

\* what a new tracker with the default ceilings answers to the last of calls
RECURSIVE feed(_, _)
feed(t, calls) ==
    IF calls = <<>> THEN [tracker |-> t, continue |-> TRUE]
    ELSE LET r == track_call(t, Head(calls).name, Head(calls).input)
         IN IF Tail(calls) = <<>> THEN r ELSE feed(r.tracker, Tail(calls))

GuardAborts(calls) == ~feed(DefaultTracker, calls).continue

\* C11: when the tool calls a worker has made for the task it services make a
\* new tracker (default ceilings) signal abort, the task ends failed with
\* reason RunawayDetected (not Timeout) in that step.
C11_GuardAbortFailsTask ==
    [][\A id \in DOMAIN tool_calls' :
          (/\ (id \notin DOMAIN tool_calls \/ tool_calls'[id] # tool_calls[id])
           /\ GuardAborts(tool_calls'[id]))
          => /\ id \in DOMAIN tasks'
             /\ tasks'[id].status = FAILED
             /\ tasks'[id].result = [kind |-> "error", info |-> "RunawayDetected"]]_vars

\* a track_call ran in this step
Tracked ==
    /\ tracker # NoTracker /\ tracker' # NoTracker
    /\ Len(tracker'.call_history) = Len(tracker.call_history) + 1

Ceilings(t) == <<t.max_total_calls, t.max_identical_calls, t.max_recent_repeats>>

Occurrences(h, sig) == Cardinality({i \in DOMAIN h : h[i] = sig})

\* the last 2k entries of h are two element-wise identical halves of length k
TwoIdenticalHalves(h, k) ==
    /\ Len(h) >= 2 * k
    /\ \A i \in 1..k : h[Len(h) - 2 * k + i] = h[Len(h) - k + i]

\* C12: for every sequence of calls and every setting of the three ceilings,
\* track_call signals abort iff, after recording the call, the number of calls
\* exceeds max_total_calls, or the count of this call's signature exceeds
\* max_identical_calls, or the last 2k signatures (k = max_recent_repeats) are
\* two identical halves of length k; otherwise it signals continue.
C12_AbortIffCeilingOrCycle ==
    [][Tracked =>
          LET h == tracker'.call_history
              sig == h[Len(h)]
          IN signal' = <<~(\/ Len(h) > tracker.max_total_calls
                         \/ Occurrences(h, sig) > tracker.max_identical_calls
                         \/ TwoIdenticalHalves(h, tracker.max_recent_repeats))>>]_vars

\* C12 as amended: the same, where the third condition counts only for a
\* window k >= 1; with k = 0 track_call aborts iff one of the first two
\* conditions holds.
C12_AbortIffCeilingOrNonEmptyCycle ==
    [][Tracked =>
          LET h == tracker'.call_history
              sig == h[Len(h)]
              k == tracker.max_recent_repeats
          IN signal' = <<~(\/ Len(h) > tracker.max_total_calls
                         \/ Occurrences(h, sig) > tracker.max_identical_calls
                         \/ (k >= 1 /\ TwoIdenticalHalves(h, k)))>>]_vars

C12_Witness ==
    /\ tracker # NoTracker
    /\ signal = <<FALSE>>
    /\ tracker.loop_reason = "repeating_pattern"
    /\ tracker.max_recent_repeats = 3
    /\ Len(tracker.call_history) = 6
    /\ Cardinality(Range(tracker.call_history)) = 3

\* the history is n calls of the signature (callTool, {})
RunOfCallTool(h) == \A i \in DOMAIN h : h[i] = call_signature("callTool", <<>>)

\* C13: a tracker with max_total_calls = 20 and the other ceilings at their
\* defaults that receives 21 identical (callTool, {}) calls signals continue
\* on the first 20 and abort on the 21st.
C13_AbortOnTwentyFirst ==
    [][(Tracked /\ Ceilings(tracker) = <<20, 2, 3>>
        /\ RunOfCallTool(tracker'.call_history))
       => signal' = <<Len(tracker'.call_history) <= 20>>]_vars

\* C13 as amended: that tracker signals continue on the first 2 calls and
\* abort on the 3rd and on every later call, because the signature is
\* repeated more than max_identical_calls = 2 times; the 21st call is the
\* first whose abort is for the total number of calls.
C13_AbortOnThirdTotalOnTwentyFirst ==
    [][(Tracked /\ Ceilings(tracker) = <<20, 2, 3>>
        /\ RunOfCallTool(tracker'.call_history))
       => LET n == Len(tracker'.call_history)
          IN /\ signal' = <<n <= 2>>
             /\ n > 2 => tracker'.loop_detected
             /\ (n > 2 /\ n <= 20) => tracker'.loop_reason = "max_identical_calls"
             /\ n > 20 => tracker'.loop_reason = "max_total_calls"]_vars

C13_Witness ==
    /\ tracker # NoTracker
    /\ Ceilings(tracker) = <<20, 2, 3>>
    /\ Len(tracker.call_history) = 21
    /\ RunOfCallTool(tracker.call_history)
    /\ signal = <<FALSE>>
    /\ tracker.loop_reason = "max_total_calls"

\* C14: a tracker with window k = 2 (and ceilings that allow four calls, two
\* of each signature) that receives A, B, A, B with A # B signals continue on
\* the first three calls and aborts on the 4th for a repeating pattern.
C14_PatternOnFourthCall ==
    [][(/\ Tracked
        /\ tracker.max_recent_repeats = 2
        /\ tracker.max_total_calls >= 4
        /\ tracker.max_identical_calls >= 2
        /\ LET h == tracker'.call_history
           IN /\ Len(h) <= 4
              /\ \A i \in DOMAIN h : h[i] = h[IF i % 2 = 1 THEN 1 ELSE 2]
              /\ Len(h) >= 2 => h[1] # h[2])
       => LET n == Len(tracker'.call_history)
          IN /\ n <= 3 => signal' = <<TRUE>> /\ ~tracker'.loop_detected
             /\ n = 4 => /\ signal' = <<FALSE>>
                         /\ tracker'.loop_detected
                         /\ tracker'.loop_reason = "repeating_pattern"]_vars

C14_Witness ==
    /\ tracker # NoTracker
    /\ Ceilings(tracker) = <<20, 2, 2>>
    /\ Len(tracker.call_history) = 4
    /\ tracker.call_history[1] # tracker.call_history[2]
    /\ tracker.call_history[3] = tracker.call_history[1]
    /\ tracker.call_history[4] = tracker.call_history[2]
    /\ signal = <<FALSE>>
    /\ tracker.loop_reason = "repeating_pattern"

\* C15: a step of the tracker (track_call or reset) changes no task, no
\* status and neither the completed nor the failed set, and after reset() the
\* tracker is in the state of a tracker newly constructed with the same
\* ceilings, so that it answers every later sequence of calls as that one does.
C15_GuardFrameAndReset ==
    [][(tracker # NoTracker /\ tracker' # tracker)
       => /\ tasks' = tasks
          /\ order' = order
          /\ completed_tasks' = completed_tasks
          /\ failed_tasks' = failed_tasks
          /\ Len(tracker'.call_history) <= Len(tracker.call_history)
             => /\ tracker' = ToolCallTracker(tracker.max_total_calls,
                                              tracker.max_identical_calls,
                                              tracker.max_recent_repeats)
                /\ \A call \in ToolCalls :
                      track_call(tracker', call.name, call.input)
                      = track_call(ToolCallTracker(tracker.max_total_calls,
                                                   tracker.max_identical_calls,
                                                   tracker.max_recent_repeats),
                                   call.name, call.input)]_vars

C15_Witness ==
    /\ tracker # NoTracker
    /\ tracker.call_history = <<>>
    /\ signal = <<FALSE>>
    /\ tracker.max_identical_calls = 2
    /\ Ids # {}

\* C16: retry_task on a failed task moves it to ready and dispatches it again
\* in the same request (in_progress, worker awaited, when its agent is
\* registered); when that worker succeeds the task ends completed with its
\* result stored and its id in completed_tasks (a set: once), and the request
\* returns success.
C16_RetryCompletesOnce ==
    [][/\ \A id \in Ids \cap OperatorIds :
            (Quiescent /\ Status(id) = FAILED)
            => LET s == retry_task(TheG, id)
               IN /\ mark_ready(TheTM, id).tasks[id].status = READY
                  /\ IF tasks[id].agent \in agents
                     THEN /\ s.frame.kind = "retry" /\ s.frame.pc = "await"
                          /\ s.frame.cur.task_id = id
                          /\ s.g.tm.tasks[id].status = IN_PROGRESS
                     ELSE /\ s.frame = IdleFrame
                          /\ s.g.tm.tasks[id].status = FAILED
       /\ \A r \in Slots :
            (req[r].kind = "retry" /\ req'[r] # req[r])
            => LET id == req[r].cur.task_id
               IN /\ Status(id) = IN_PROGRESS
                  /\ worker_answer'.task_id = id
                  /\ worker_answer'.outcome = "success"
                     => /\ tasks'[id].status = COMPLETED
                        /\ tasks'[id].result.kind = "completed"
                        /\ id \in completed_tasks'
                        /\ Cardinality({x \in completed_tasks' : x = id}) = 1
                        /\ completed_tasks' = completed_tasks \cup {id}
                        /\ response' = Response("retry_task", "success", NoReport)
                        /\ req'[r] = IdleFrame]_vars

C16_Witness ==
    /\ response = Response("retry_task", "success", NoReport)
    /\ worker_answer.outcome = "success"
    /\ worker_answer.task_id \in Ids
    /\ Status(worker_answer.task_id) = COMPLETED
    /\ worker_answer.task_id \in completed_tasks
    /\ ops >= 1

\* C17: retry_task and skip_task of an id that is not in the graph return
\* not found, retry_task of a task whose status is not failed returns invalid
\* state; such a call changes no task (status, result), neither set and no
\* other state of the agent, and awaits no worker.
C17_InvalidTargetsRejected ==
    [][/\ \A id \in OperatorIds :
            Quiescent
            => /\ id \notin Ids
                  => /\ skip_task(TheG, id)
                        = Stretch(TheG, IdleFrame, <<>>,
                                  Response("skip_task", "not_found", NoReport))
                     /\ retry_task(TheG, id)
                        = Stretch(TheG, IdleFrame, <<>>,
                                  Response("retry_task", "not_found", NoReport))
               /\ (id \in Ids /\ Status(id) # FAILED)
                  => retry_task(TheG, id)
                     = Stretch(TheG, IdleFrame, <<>>,
                               Response("retry_task", "invalid_state", NoReport))
       /\ (ops' # ops /\ response'.status \in {"not_found", "invalid_state"})
          => /\ tasks' = tasks
             /\ order' = order
             /\ completed_tasks' = completed_tasks
             /\ failed_tasks' = failed_tasks
             /\ project_phase' = project_phase
             /\ last_error' = last_error
             /\ req' = req
             /\ returns' = <<>>
             /\ \A r \in Slots : req'[r].pc # "await"]_vars

C17_Witness ==
    /\ response = Response("retry_task", "invalid_state", NoReport)
    /\ ops >= 1
    /\ \E id \in Ids : Status(id) = COMPLETED
    /\ \E id \in Ids : Status(id) = PENDING

\* C18: skip_task of a task of the graph (failed, or stuck in any other
\* status) marks it completed, puts its id in completed_tasks and stores a
\* skipped note with the status the task had before; in the scheduling pass
\* that follows every pending task that depends on it and whose other
\* dependencies are completed becomes ready, and when there is such a task the
\* pass returns tasks to run.
C18_SkipUnblocksDependents ==
    \A id \in Ids \cap OperatorIds :
        Quiescent
        => LET s == skip_task(TheG, id)
               tm == s.g.tm
               n == get_ready_tasks(tm)
               unblocked == {d \in Ids :
                               /\ Status(d) = PENDING
                               /\ id \in Deps(d)
                               /\ \A e \in Deps(d) \ {id} :
                                     e \in Ids /\ tm.tasks[e].status = COMPLETED}
           IN /\ s.response = Response("skip_task", "success", NoReport)
              /\ tm.tasks[id].status = COMPLETED
              /\ tm.tasks[id].result = [kind |-> "skipped", info |-> Status(id)]
              /\ id \in tm.completed
              /\ \A d \in unblocked :
                    n.tm.tasks[d].status = READY /\ d \in Range(n.ready)
              /\ unblocked # {} => get_next_phase_tasks(tm).ready # <<>>

C18_Witness ==
    /\ \E id \in Ids :
          /\ Status(id) = COMPLETED
          /\ tasks[id].result = [kind |-> "skipped", info |-> FAILED]
          /\ \E d \in Ids :
                /\ id \in Deps(d)
                /\ Status(d) = IN_PROGRESS
    /\ ops >= 1

Rank(status) ==
    CASE status = PENDING -> 0
      [] status = BLOCKED -> 0
      [] status = READY -> 1
      [] status = IN_PROGRESS -> 2
      [] OTHER -> 3

\* a retry_task request dispatches task id in this step
RetryDispatches(id) ==
    \E r \in Slots :
        /\ req[r].kind = "idle"
        /\ ops' # ops
        /\ \/ req'[r].kind = "retry" /\ req'[r].cur.task_id = id
           \/ /\ response'.op = "retry_task" /\ response'.status = "success"
              /\ returns' # <<>> /\ returns'[1].task_id = id

\* C19: in every step the status of a task that stays in the graph keeps its
\* place or moves forward in the order pending, ready, in_progress,
\* completed / failed; the one exception is retry_task on a failed task
\* (failed to ready, and on to in_progress by its dispatch).  A completed or
\* failed task never becomes pending or in_progress otherwise and a completed
\* task never becomes failed.
C19_StatusMonotonic ==
    [][\A id \in Ids \cap DOMAIN tasks' :
          ~Replaced(id)
          => /\ \/ Rank(tasks'[id].status) >= Rank(Status(id))
                \/ Status(id) = FAILED /\ RetryDispatches(id)
             /\ Status(id) = COMPLETED => tasks'[id].status # FAILED]_vars

Terminal(t, id) == id \in DOMAIN t /\ t[id].status \in {COMPLETED, FAILED}

QueueIds(frame) == {frame.queue[i].task_id : i \in DOMAIN frame.queue}

\* the tasks a frame still has to finish: the one awaited and the queue
Remaining(frame) ==
    QueueIds(frame) \cup (IF frame.cur = NoTask THEN {} ELSE {frame.cur.task_id})

\* the tasks of the phase group that request r has not yet finished: those
\* its frame holds or, when the call is about to start, those the scheduling
\* pass returns
Group(r) ==
    IF req[r].pc = "await"
    THEN Remaining(req[r])
    ELSE Range(get_next_phase_tasks(TheTM).ready)

\* request r runs a stretch of execute_next_phase in this step
PhaseStretch(r) ==
    /\ req'[r] # req[r] \/ response'.op = "execute_next_phase"
    /\ \/ req[r].pc = "await" /\ req[r].kind \in {"phase", "project"}
       \/ /\ req[r].kind = "idle" /\ Quiescent /\ project_phase # "idle"
          /\ ops' = ops /\ starts' = starts
          /\ req'[r].kind = "phase" \/ response'.op = "execute_next_phase"

\* C20: in every stretch of an execute_next_phase call each task of the phase
\* group that was not yet finished is afterwards either finished (completed or
\* failed) or still held by the call (awaited or queued), so that the call
\* returns only when every task of the group has been handed to execute_task
\* and is completed or failed, whatever happened to the tasks before it; a
\* task still queued is unchanged, a task that failed without a worker is one
\* without a registered agent, and no task outside the group becomes failed.
C20_GroupRunsToTheEnd ==
    [][\A r \in Slots :
          PhaseStretch(r)
          => LET group == Group(r)
             IN
             /\ \A id \in group :
                   \/ Terminal(tasks', id)
                   \/ id \in Remaining(req'[r])
             /\ req'[r].pc # "await" => \A id \in group : Terminal(tasks', id)
             /\ \A id \in QueueIds(req'[r]) :
                   id \in group /\ tasks'[id].status = READY
             /\ req'[r].pc = "await"
                => /\ req'[r].cur.task_id \in group
                   /\ tasks'[req'[r].cur.task_id].status = IN_PROGRESS
             /\ \A id \in group :
                   (/\ tasks'[id].status = FAILED /\ Status(id) # FAILED
                    /\ id # req[r].cur.task_id)
                   => tasks'[id].agent \notin agents
             /\ \A id \in Ids \ group :
                   tasks'[id].status = FAILED => Status(id) = FAILED]_vars

C20_Witness ==
    /\ current_project.type = "group"
    /\ response.op = "execute_next_phase" /\ response.status = "success"
    /\ Len(returns) = 1
    /\ Ids = {"1", "2", "3"}
    /\ tasks["1"].result = [kind |-> "error", info |-> "Timeout"]
    /\ tasks["2"].result = [kind |-> "error", info |-> "CapabilityNotFound"]
    /\ Status("3") = COMPLETED
    /\ worker_answer = [task_id |-> "3", outcome |-> "success"]

\* the reports execute_entire_project returns
RunStatuses == {"completed", "partial", "error"}

\* what a run still has ahead of it: the passes left before the cap and,
\* within a pass, the tasks of the phase group still to be awaited
RunMeasure(frame) ==
    (max_iterations - frame.iteration) * (Cardinality(Ids) + 2)
    + (IF frame.pc = "await" THEN 1 + Len(frame.queue) ELSE 0)

\* C21: execute_entire_project always returns a report: its loop never makes
\* more than max_iterations passes, whatever the workers answer (result, error
\* or timeout) and whatever an operator does meanwhile; every step of a run
\* either returns a report whose status is completed, partial or error and
\* whose count of passes is at most max_iterations, or brings the run closer
\* to the cap (a pass more, or a task less to await in the same pass).
C21_RunTerminates ==
    [][/\ \A r \in Slots : req'[r].iteration <= max_iterations
       /\ response'.op = "execute_entire_project"
          => /\ response'.status \in RunStatuses
             /\ response'.report.total_iterations <= max_iterations
       /\ \A r \in Slots :
             (req[r].kind = "project" /\ req'[r] # req[r])
             => \/ /\ req'[r] = IdleFrame
                   /\ response'.op = "execute_entire_project"
                   /\ response'.status \in {"completed", "partial"}
                \/ /\ req'[r].kind = "project"
                   /\ RunMeasure(req'[r]) < RunMeasure(req[r])
                   /\ RunMeasure(req'[r]) >= 0]_vars

\* the loop stopped by the iteration cap while another request holds a task
\* in progress
C21_Witness ==
    /\ response.op = "execute_entire_project"
    /\ response.report.total_iterations = max_iterations
    /\ response.status = "partial"
    /\ \E id \in Ids : Status(id) = IN_PROGRESS

\* a start_project call is answered in this step
StartAnswered == starts' = starts + 1 /\ response'.op = "start_project"

\* C22: a start_project that is rejected leaves the task graph, the completed
\* and failed sets, current_project and project_phase exactly as they were
\* before the call.
C22_RejectedStartChangesNothing ==
    [][(StartAnswered /\ response'.status = "error")
       => /\ tasks' = tasks
          /\ order' = order
          /\ completed_tasks' = completed_tasks
          /\ failed_tasks' = failed_tasks
          /\ current_project' = current_project
          /\ project_phase' = project_phase]_vars

\* the pairs <<a, b>> such that a record of id a names b as a dependency
DependsOn(records) ==
    UNION {{<<records[i].task_id, d>> : d \in Range(records[i].dependencies)} :
              i \in DOMAIN records}

\* the same for the tasks of a graph
GraphRelation(graph) ==
    UNION {{<<id, d>> : d \in Range(graph[id].dependencies)} : id \in DOMAIN graph}

RECURSIVE TransitiveClosure(_)
TransitiveClosure(R) ==
    LET T == R \cup {<<pq[1][1], pq[2][2]>> :
                        pq \in {x \in R \X R : x[1][2] = x[2][1]}}
    IN IF T = R THEN R ELSE TransitiveClosure(T)

\* some task depends, directly or transitively, on itself
Cyclic(R) == \E p \in TransitiveClosure(R) : p[1] = p[2]

\* C23: a start_project whose planning agent answers with a plan in which a
\* task depends, directly or transitively, on a task that depends on it is
\* rejected, CycleDetected is among the reasons, and the task graph is the
\* one before the call (no task of the plan is added); the dependency
\* relation of the task graph is acyclic after every step.
C23_CyclicPlanRejected ==
    [][/\ (/\ StartAnswered
           /\ planner_result.kind = "answer"
           /\ Cyclic(DependsOn(planner_result.tasks)))
          => /\ response'.status = "error"
             /\ "CycleDetected" \in response'.errors
             /\ tasks' = tasks
             /\ order' = order
       /\ ~Cyclic(GraphRelation(tasks'))]_vars

\* the plan 1 -> 2 -> 3 -> 1 is rejected and the graph of the chain project
\* is still there
C23_Witness ==
    /\ planner_result = PlannerAnswer(<< Rec("1", "Carpenter", <<"2">>, "framing"),
                                         Rec("2", "Carpenter", <<"3">>, "framing"),
                                         Rec("3", "Carpenter", <<"1">>, "framing") >>)
    /\ response.op = "start_project" /\ response.status = "error"
    /\ response.errors = {"CycleDetected"}
    /\ current_project.type = "dog_house"
    /\ DOMAIN tasks = {"1", "2", "3"}
    /\ tasks["1"].agent = "Architect"
    /\ tasks["3"].dependencies = <<"2">>

UniqueIds(records) ==
    \A i, j \in DOMAIN records : records[i].task_id = records[j].task_id => i = j

ValidReferences(records) ==
    \A i \in DOMAIN records :
       Range(records[i].dependencies) \subseteq RecordIds(records)

\* the task graph holds exactly one pending task per record, with the
\* record's id, agent and dependencies, in the order of the records
GraphOfRecords(graph, ids, records) ==
    /\ Len(ids) = Len(records)
    /\ Cardinality(DOMAIN graph) = Len(records)
    /\ \A i \in DOMAIN records :
          /\ ids[i] = records[i].task_id
          /\ records[i].task_id \in DOMAIN graph
          /\ graph[records[i].task_id].agent = records[i].agent
          /\ graph[records[i].task_id].dependencies = records[i].dependencies
          /\ graph[records[i].task_id].status = PENDING

\* a plan with two records of one id is rejected with DuplicateId and the
\* graph is left as it was
DuplicateIdRejected ==
    (/\ StartAnswered
     /\ planner_result.kind = "answer"
     /\ ~UniqueIds(planner_result.tasks))
    => /\ response'.status = "error"
       /\ "DuplicateId" \in response'.errors
       /\ tasks' = tasks
       /\ order' = order

\* C24 as stated: every acyclic plan with valid references and unique ids is
\* ingested, and the graph then holds exactly one task per record; a plan with
\* two records of one id is rejected with DuplicateId.
C24_AcyclicPlanIngested ==
    [][/\ (/\ StartAnswered
           /\ planner_result.kind = "answer"
           /\ ~Cyclic(DependsOn(planner_result.tasks))
           /\ ValidReferences(planner_result.tasks)
           /\ UniqueIds(planner_result.tasks))
          => /\ response'.status = "success"
             /\ GraphOfRecords(tasks', order', planner_result.tasks)
       /\ DuplicateIdRejected]_vars

\* C24, amended: every plan of at least one record that is acyclic, has valid
\* references and unique ids and no record without its agent is ingested, and
\* the graph then holds exactly one task per record (same count, id, agent
\* and dependencies); a plan with two records of one id is rejected with
\* DuplicateId and no record replaces another.
C24_CompleteAcyclicPlanIngested ==
    [][/\ (/\ StartAnswered
           /\ planner_result.kind = "answer"
           /\ planner_result.tasks # <<>>
           /\ \A i \in DOMAIN planner_result.tasks :
                 planner_result.tasks[i].agent # None
           /\ ~Cyclic(DependsOn(planner_result.tasks))
           /\ ValidReferences(planner_result.tasks)
           /\ UniqueIds(planner_result.tasks))
          => /\ response'.status = "success"
             /\ GraphOfRecords(tasks', order', planner_result.tasks)
       /\ DuplicateIdRejected]_vars

\* the plan 2, 3 -> 2 is ingested in place of the chain project's graph
C24_Witness ==
    /\ planner_result = PlannerAnswer(<< Rec("2", "Carpenter", <<>>, "framing"),
                                         Rec("3", "Carpenter", <<"2">>, "framing") >>)
    /\ response.op = "start_project" /\ response.status = "success"
    /\ order = <<"2", "3">>
    /\ DOMAIN tasks = {"2", "3"}
    /\ tasks["3"].dependencies = <<"2">>
    /\ current_project.type = "dog_house"

\* C25: in every reachable state every dependency id of every task of the
\* graph is the id of a task of the graph, for the graphs of the built-in
\* templates (the shed template with every combination of has_foundation and
\* has_electrical), of an accepted plan of the planning agent, and of
\* projects started one after another.
C25_ReferentialIntegrity ==
    \A id \in Ids : Deps(id) \subseteq Ids

\* the shed without foundation and with electrical work: nine tasks, the
\* siding waits for the roofing and the electrical task
C25_Witness ==
    /\ current_project.type = "shed_construction"
    /\ Ids = {str(i) : i \in 1..9}
    /\ tasks["2"].agent = "Carpenter" /\ tasks["2"].dependencies = <<"1">>
    /\ tasks["5"].agent = "Electrician" /\ tasks["5"].dependencies = <<"2">>
    /\ tasks["6"].dependencies = <<"4", "5">>
    /\ tasks["9"].phase = "final_inspection"

\* the plan of the project that was started last
StartedPlan(project) == CHOOSE plan \in Plans : plan.type = project.type

\* C26: after a project is started the task graph holds exactly the tasks of
\* the new plan, all pending, and the completed and failed sets are empty,
\* whether or not reset() was called since the previous project.
C26_NewProjectReplacesGraph ==
    [][(starts' = starts + 1 /\ response'.status = "success")
       => /\ DOMAIN tasks' = RecordIds(StartedPlan(current_project').records)
          /\ \A id \in DOMAIN tasks' : tasks'[id].status = PENDING
          /\ completed_tasks' = {}
          /\ failed_tasks' = {}]_vars

\* C27: telemetry is fire-and-forget.  With subscriber queues that are full or
\* that raise when an event is offered, a task whose worker succeeded is
\* COMPLETED and in the completed set, execute_task returned its "completed"
\* result, no request ended with an exception, and every task that is
\* IN_PROGRESS is the one a request is awaiting the worker of.
C27_TelemetryNeverChangesOutcome ==
    /\ response.status # "exception"
    /\ \A id \in DOMAIN tasks :
          tasks[id].status = IN_PROGRESS
             => \E r \in Slots : req[r].pc = "await" /\ req[r].cur.task_id = id
    /\ worker_answer.outcome = "success"
          => /\ tasks[worker_answer.task_id].status = COMPLETED
             /\ worker_answer.task_id \in completed_tasks
             /\ returns # <<>>
             /\ returns[1] = Ret(worker_answer.task_id, "completed", None)

\* a worker succeeded while the first subscriber's queue was full and took
\* nothing; the event is in the log and in the second subscriber's queue
C27_Witness ==
    /\ worker_answer.outcome = "success"
    /\ tasks[worker_answer.task_id].status = COMPLETED
    /\ Len(subscribers) = 2
    /\ subscribers[1].backlog = queue_maxsize
    /\ subscribers[1].items = <<>>
    /\ \E i \in DOMAIN subscribers[2].items :
          /\ subscribers[2].items[i].type = "task_complete"
          /\ subscribers[2].items[i].task_id = worker_answer.task_id
    /\ \E i \in DOMAIN events :
          /\ events[i].type = "task_complete"
          /\ events[i].task_id = worker_answer.task_id

LifecycleTypes == {"task_start", "task_complete", "task_failed"}

\* the types of the lifecycle events recorded for task id, in emission order
RECURSIVE Lifecycle(_, _)
Lifecycle(ev, id) ==
    IF ev = <<>> THEN <<>>
    ELSE (IF Head(ev).task_id = id /\ Head(ev).type \in LifecycleTypes
          THEN <<Head(ev).type>> ELSE <<>>)
         \o Lifecycle(Tail(ev), id)

\* C28: the lifecycle events of every task are emitted at most once each and
\* in order: nothing before the task is handed over, task_start while it is in
\* progress, then task_complete for a COMPLETED task and task_failed for a
\* FAILED one, also when it failed because no agent of its name is registered.
C28_LifecycleEventsMatchStatus ==
    \A id \in DOMAIN tasks :
       LET lifecycle == Lifecycle(events, id)
       IN CASE tasks[id].status \in {PENDING, READY} -> lifecycle = <<>>
            [] tasks[id].status = IN_PROGRESS -> lifecycle = <<"task_start">>
            [] tasks[id].status = COMPLETED ->
                   lifecycle = <<"task_start", "task_complete">>
            [] tasks[id].status = FAILED ->
                   lifecycle \in {<<"task_start", "task_failed">>, <<"task_failed">>}
            [] OTHER -> TRUE

\* C29: the project status changes only along idle -> planning ->
\* in_progress -> completed (start_project opens a new project, reset() returns
\* to idle); execute_next_phase and execute_entire_project called in idle
\* answer "error" and change nothing; no task is dispatched while the status
\* is completed.
C29_ProjectStatusTransitions ==
    [][/\ project_phase' # project_phase
            => \/ response'.op = "start_project" /\ project_phase' = "planning"
               \/ response'.op = "reset" /\ project_phase' = "idle"
               \/ project_phase = "planning" /\ project_phase' = "in_progress"
               \/ project_phase = "in_progress" /\ project_phase' = "completed"
       /\ response'.op = "reset" => project_phase' = "idle"
       /\ (/\ project_phase = "idle"
           /\ response'.op \in {"execute_next_phase", "execute_entire_project"})
            => /\ response'.status = "error"
               /\ UNCHANGED <<tasks, order, completed_tasks, failed_tasks,
                              project_phase, current_project, last_error,
                              dispatched, req>>
       /\ project_phase = "completed"
            => \A id \in DOMAIN dispatched' :
                  id \in DOMAIN dispatched /\ dispatched'[id] <= dispatched[id]
      ]_vars

\* C30: the list one call of get_next_phase_tasks returns never holds tasks of
\* two different phases of PHASE_ORDER.
C30_OneRecognizedPhasePerCall ==
    response.op = "get_next_phase_tasks"
       => \A i, j \in DOMAIN returns :
             (/\ tasks[returns[i]].phase \in Range(PHASE_ORDER)
              /\ tasks[returns[j]].phase \in Range(PHASE_ORDER))
                => tasks[returns[i]].phase = tasks[returns[j]].phase

\* a call returned two tasks of one phase and held back a ready task of a
\* later phase of PHASE_ORDER
C30_Witness ==
    /\ response.op = "get_next_phase_tasks"
    /\ Len(returns) = 2
    /\ tasks[returns[1]].phase = "foundation"
    /\ \E id \in DOMAIN tasks :
          /\ id \notin Range(returns)
          /\ tasks[id].status = READY
          /\ tasks[id].phase = "framing"

\* C31: get_ready_tasks is idempotent.  A call that follows another call with
\* no status change in between returns no task and leaves every task and both
\* sets as they are, and no call returns a task that was READY before it.
C31_GetReadyTasksIdempotent ==
    [][/\ \A id \in Ids : Status(id) = READY => id \notin Range(returns')
       /\ response.op = "get_ready_tasks"
            => /\ returns' = <<>>
               /\ UNCHANGED <<tasks, order, completed_tasks, failed_tasks>>
       /\ response'.op = "get_ready_tasks"
            => LET tm == TM(tasks', order', completed_tasks', failed_tasks')
               IN /\ get_ready_tasks(tm).ready = <<>>
                  /\ get_ready_tasks(tm).tm = tm]_vars

\* a call returned nothing although a task with completed dependencies is
\* READY and another task is still PENDING
C31_Witness ==
    /\ response.op = "get_ready_tasks"
    /\ returns = <<>>
    /\ \E a, b \in Ids :
          /\ Status(a) = READY
          /\ tasks[a].dependencies # <<>>
          /\ Deps(a) \subseteq completed_tasks
          /\ Status(b) = PENDING

\* C32: on a linear chain the first get_ready_tasks returns exactly the first
\* task, the call after task i was marked completed returns exactly task
\* i + 1 (nothing after the last one), and no call returns a task whose
\* predecessor is not completed.
C32_ChainOneTaskAtATime ==
    [][response'.op = "get_ready_tasks"
         => LET k == Cardinality(completed_tasks)
            IN /\ \A id \in Range(returns') : Deps(id) \subseteq completed_tasks
               /\ (completed_tasks = {} /\ \A id \in Ids : Status(id) = PENDING)
                     => returns' = <<IdName[1]>>
               /\ response.op = "mark_completed"
                     => /\ completed_tasks = {IdName[i] : i \in 1..k}
                        /\ returns' = IF k < Cardinality(Ids)
                                      THEN <<IdName[k + 1]>> ELSE <<>>]_vars

\* in a chain of four tasks stored in reverse order, tasks 1 and 2 are
\* completed and the call returned task 3 alone, task 4 still pending
C32_Witness ==
    /\ response.op = "get_ready_tasks"
    /\ order = <<"4", "3", "2", "1">>
    /\ completed_tasks = {"1", "2"}
    /\ returns = <<"3">>
    /\ Status("3") = READY
    /\ Status("4") = PENDING

\* C33: every task promoted to READY is dispatched while the run loop is
\* advanced: when the run loop has ended and returned its report, no task is
\* left with status READY that was never dispatched.
C33_ReadyTaskIsDispatched ==
    RunReported
       => \A id \in Ids : Status(id) = READY => id \in DOMAIN dispatched

\* C34: a built-in template started on a fresh agent and run by
\* execute_entire_project with workers that all succeed ends with the report
\* completed, every task completed, none failed or pending, and no stuck
\* state recorded.
C34_TemplatesRunToCompletion ==
    (RunReported /\ current_project.type \in SUPPORTED_PROJECT_TYPES)
       => /\ response.status = "completed"
          /\ response.report.final_status.completed
                = response.report.final_status.total_tasks
          /\ response.report.final_status.failed = 0
          /\ response.report.final_status.pending = 0
          /\ response.report.error_details = NoError
          /\ \A id \in Ids : Status(id) = COMPLETED

\* position of a phase in PHASE_ORDER, 0 for a phase it does not list
PhaseIndex(phase) ==
    IF phase \in Range(PHASE_ORDER)
    THEN CHOOSE i \in DOMAIN PHASE_ORDER : PHASE_ORDER[i] = phase
    ELSE 0

\* C35: phase gating is global.  While a task of a recognized phase is in
\* progress, no task of an earlier recognized phase is outstanding (neither
\* completed nor failed), whether or not it depends on anything.
C35_GlobalPhaseGating ==
    \A id, earlier \in Ids :
       (/\ Status(id) = IN_PROGRESS
        /\ PhaseIndex(tasks[id].phase) > 0
        /\ PhaseIndex(tasks[earlier].phase) > 0
        /\ PhaseIndex(tasks[earlier].phase) < PhaseIndex(tasks[id].phase))
          => Status(earlier) \in {COMPLETED, FAILED}

\* C36: the task graph has one writer at a time.  At most one task is in
\* progress at any moment, also when requests overlap at the await of a
\* worker, and a skip or retry request of the operator leaves the status of
\* every task that is in progress as it is.
C36_OneWriterAtATime ==
    [][/\ Cardinality({id \in DOMAIN tasks' : tasks'[id].status = IN_PROGRESS}) <= 1
       /\ ops' # ops
            => \A id \in Ids \cap DOMAIN tasks' :
                  Status(id) = IN_PROGRESS => tasks'[id].status = IN_PROGRESS]_vars

\* C37: after reset() and the start of a new project, the answer of a worker
\* that was asked for the project before, and the dispatches of the rest of
\* its phase group, leave every task and both sets of the new graph as they
\* are, also when ids coincide.
C37_StaleRunLeavesNewGraphAlone ==
    [][(/\ starts > 1
        /\ req["r1"].pc = "await"
        /\ req'["r1"] # req["r1"])
          => UNCHANGED <<tasks, completed_tasks, failed_tasks>>]_vars

\* C38: in every state the counts of get_project_status add up to at most
\* total_tasks, completed is at most total_tasks, completion_percentage lies
\* in 0..100 and is 100 only when every task has status COMPLETED.
C38_StatusCountsConsistent ==
    LET s == get_project_status(TheTM)
    IN /\ s.completed + s.failed + s.in_progress + s.pending <= s.total_tasks
       /\ s.completed <= s.total_tasks
       /\ completion_percentage(TheTM) \in 0..100
       /\ completion_percentage(TheTM) = 100
             => \A id \in Ids : Status(id) = COMPLETED

\* C39: no stuck-state detail of a run before reset() shows up later: the
\* report of a run that ends completed, with every task completed, in a
\* project started after a reset carries no error_details.
C39_NoErrorDetailsAfterReset ==
    (/\ RunReported
     /\ response.status = "completed"
     /\ \A id \in Ids : Status(id) = COMPLETED
     /\ starts > 1)
       => response.report.error_details = NoError

\* C40 as stated: once track_call has signalled abort on a tracker
\* (loop_detected is true), every later track_call on it keeps loop_detected
\* true and signals abort as well.
C40_AbortIsSticky ==
    [][(Tracked /\ tracker.loop_detected)
          => (tracker'.loop_detected /\ signal' = <<FALSE>>)]_vars

\* C40: loop_detected is true exactly from the first abort of track_call
\* until reset(): an abort sets it, no track_call clears it, and only reset()
\* does. A later track_call signals abort when one of the three conditions
\* holds for that call, which is every later call once the total exceeds
\* max_total_calls, and signals continue otherwise.
C40_FlagIsStickySignalIsNot ==
    [][/\ (Tracked /\ signal' = <<FALSE>>) => tracker'.loop_detected
       /\ (Tracked /\ tracker.loop_detected) => tracker'.loop_detected
       /\ (Tracked /\ Len(tracker.call_history) > tracker.max_total_calls)
             => signal' = <<FALSE>>
       /\ (tracker # NoTracker /\ tracker.loop_detected
           /\ tracker' # NoTracker /\ ~tracker'.loop_detected)
             => tracker'.call_history = <<>>]_vars

\* a call with another signature continued on a tracker that had aborted for
\* identical calls
C40_Witness ==
    /\ tracker # NoTracker
    /\ tracker.loop_detected
    /\ tracker.loop_reason = "max_identical_calls"
    /\ signal = <<TRUE>>

====
